---- MODULE Spec2Model ----
(***************************************************************************)
(* A model of the summarization core of Shortform-educator:                *)
(*   - the versioned summary repository (createSummary, createSummaries,   *)
(*     updateSummary, deleteSummary) over the summaries table,             *)
(*   - the multi-pass summarization pipeline                               *)
(*     (generateHierarchicalSummaries, generateSingleSummary),             *)
(*   - the document segmenter (segmentDocument),                           *)
(*   - cross-document aggregation (generateAggregatedSummary and the       *)
(*     aggregate route) and concept deduplication (normalizeConcept,       *)
(*     findDuplicateConcepts),                                             *)
(*   - the routes POST /api/summaries and POST /api/process/[sourceId].    *)
(* Texts are sequences of one-character strings.                           *)
(***************************************************************************)
EXTENDS Integers, Sequences, FiniteSets, TLC

VARIABLES
    usePostgres,   \* which backend the db module selected at start-up
    writers,       \* the callers that may have a repository call in flight
    rows,          \* the summaries table, in insertion order
    nextId,        \* ids handed out so far (nanoid() never repeats)
    wpc,           \* per caller: the position inside createSummary
    opsUsed,       \* history: the repository operations invoked so far
    lastBatch,     \* history: what the last createSummaries call did
    issued,        \* history: the (sourceId, summaryType, version) of every row ever inserted
    text,          \* the document text handed to the segmenter or the pipeline
    budget,        \* options.maxTokensPerSegment
    respect,       \* options.respectSectionBoundaries
    segPc,         \* segmentDocument: "input" before the call, "done" after
    segOut,        \* the list segmentDocument returned
    sourceTitle,   \* generateHierarchicalSummaries: options.sourceTitle
    ppc,           \* the phase the run is in, "done" once it returned, "failed" once it threw
    segments,      \* the list Phase 1 got from segmentDocument
    segIdx,        \* the loop variable i of Phase 2
    segmentTexts,  \* the texts of the segment summaries so far
    segmentSummaries, \* the segment summaries so far
    keyPoints,     \* keyPointsResult.content
    executive,     \* executiveResult.content
    inflight,      \* the generation calls awaited
    invoked,       \* history: the generate functions invoked, with their arguments
    calls,         \* history: the generation calls that settled, with their outcome
    progress,      \* history: the percent values passed to onProgress
    error,         \* the message of the error the run threw
    result,        \* the value the run returned
    singleType,    \* generateSingleSummary: the summaryType asked for ("" outside such a run)
    single,        \* generateSingleSummary: the summary it returned
    includeThemes, \* aggregate route: the request body's includeThemes
    includeInsights, \* aggregate route: the request body's includeInsights
    summariesToAggregate, \* aggregate route: the key_points summaries read
    apc,           \* aggregate route: position, then the status answered
    promises,      \* per aggregation function: the state of its promise
    responses,     \* history: the response each function's call got
    aggregate,     \* the result the route answers with
    concepts,      \* findDuplicateConcepts: its argument
    duplicates,    \* findDuplicateConcepts: the map it returned
    texts,         \* estimateTokens: the texts it is applied to
    estimates,     \* estimateTokens: the counts it returned for them
    forceRegenerate, \* POST /api/summaries: the request body's forceRegenerate
    rpc,           \* POST /api/summaries: position, then the status answered
    documentSegments, \* the document_segments table, in insertion order
    stored,        \* history: the stored segments and summaries when the request came in
    status,        \* sources.processing_status of the source being processed
    lessons,       \* micro_lessons: the sequence numbers stored for the source
    proc,          \* per POST /api/process request: its position and the lessons it got
    wasComplete,   \* history: the status has been set to 'complete'
    rawConcept,    \* normalizeConcept: the concept it is first applied to
    normalForms    \* normalizeConcept: what it returned, applied again to its own result

repoVars == <<usePostgres, writers, rows, nextId, wpc, opsUsed, lastBatch, issued>>

segVars == <<text, budget, respect, segPc, segOut>>

pipeVars == <<sourceTitle, ppc, segments, segIdx, segmentTexts, segmentSummaries, keyPoints,
              executive, inflight, invoked, calls, progress, error, result>>

singleVars == <<singleType, single>>

aggVars == <<includeThemes, includeInsights, summariesToAggregate, apc, promises,
             responses, aggregate>>

utilVars == <<concepts, duplicates, texts, estimates>>

routeVars == <<forceRegenerate, rpc, documentSegments, stored>>

processVars == <<status, lessons, proc, wasComplete>>

normVars == <<rawConcept, normalForms>>

auxVars == <<singleVars, aggVars, utilVars, routeVars, processVars, normVars>>

vars == <<repoVars, segVars, pipeVars, auxVars>>

----------------------------------------------------------------------------
(* Bounds of the model *)

\* rows ever inserted into the summaries table
MaxInserts == 4
\* rows of one createSummaries batch
MaxBatch == 3
\* characters of a document text
MaxLen == 7
\* largest maxTokensPerSegment tried
MaxBudget == 3
\* characters of a document text handed to the pipeline
MaxPipeLen == 5
\* paragraphs of a long document
MaxParagraphs == 15
\* entries of a parsed themes or insights response
MaxItems == 2
\* entries of the list handed to findDuplicateConcepts
MaxConcepts == 4
\* characters of a text handed to estimateTokens on its own
MaxEstimateLen == 4
\* the longest headingless document handed to the segmenter
MaxPlainLen == 9
\* characters of a document text in the runs checked for termination
MaxLiveLen == 2
\* characters of the text of the source of a summaries request
MaxRouteLen == 3
\* lessons chunkContent returns for a source
MaxLessons == 2
\* characters of a concept handed to normalizeConcept on its own
MaxConceptLen == 4

----------------------------------------------------------------------------
(* The summaries table *)

SourceIds == {"s1", "s2"}
SummaryTypes == {"executive", "key_points", "detailed", "segment"}

\* the (sourceId, summaryType) pairs the callers of the model write to
Scopes == {<<"s1", "segment">>, <<"s1", "key_points">>, <<"s2", "segment">>}

Callers == {1, 2}

InScope(r, sourceId, summaryType) ==
    r.sourceId = sourceId /\ r.summaryType = summaryType

ScopeRows(rs, sourceId, summaryType) ==
    SelectSeq(rs, LAMBDA r : InScope(r, sourceId, summaryType))

SeqMax(s) ==
    IF s = <<>> THEN 0
    ELSE CHOOSE m \in {s[i] : i \in 1..Len(s)} : \A i \in 1..Len(s) : s[i] <= m

\* a version read that forgets the "+ 1" (the "|| 1" fallback still gives 1 at first)
NextVersionNoIncrement(rs, sourceId, summaryType) ==
    LET sc == ScopeRows(rs, sourceId, summaryType)
        m == SeqMax([i \in 1..Len(sc) |-> sc[i].version])
    IN  IF m = 0 THEN 1 ELSE m

\* SELECT COALESCE(MAX(version), 0) + 1 ... WHERE source_id = ? AND summary_type = ?
NextVersion(rs, sourceId, summaryType) ==
    LET sc == ScopeRows(rs, sourceId, summaryType)
    IN  SeqMax([i \in 1..Len(sc) |-> sc[i].version]) + 1

\* UPDATE summaries SET is_current = 0 WHERE source_id = ? AND summary_type = ?
\*   AND is_current = 1
MarkNotCurrent(rs, sourceId, summaryType) ==
    [i \in 1..Len(rs) |->
        IF InScope(rs[i], sourceId, summaryType) /\ rs[i].isCurrent
        THEN [rs[i] EXCEPT !.isCurrent = FALSE]
        ELSE rs[i]]

\* INSERT INTO summaries (..., version, is_current, ...) VALUES (..., ?, 1, ...)
InsertRow(rs, id, sourceId, summaryType, version) ==
    Append(rs, [id |-> id, sourceId |-> sourceId, summaryType |-> summaryType,
                version |-> version, isCurrent |-> TRUE, content |-> "generated"])

\* the history once the rows of `inserted` are stored
Inserted(hist, inserted) ==
    hist \cup {<<inserted[k].sourceId, inserted[k].summaryType, inserted[k].version>> :
                  k \in 1..Len(inserted)}

Idle == [pc |-> "idle", id |-> 0, sourceId |-> "", summaryType |-> "", nextVersion |-> 0]

NoBatch == [input |-> <<>>, before |-> <<>>, inserted |-> <<>>,
            reads |-> <<>>, flips |-> <<>>]

InFlight == {p \in writers : wpc[p].pc # "idle"}

(* createSummary on sqlite: the three statements run without an await      *)
(* between them, so the call is one step.                                  *)
CreateSummarySqlite(p, sourceId, summaryType) ==
    /\ ~usePostgres
    /\ wpc[p].pc = "idle"
    /\ nextId < MaxInserts
    /\ LET v == NextVersion(rows, sourceId, summaryType)
       IN  rows' = InsertRow(MarkNotCurrent(rows, sourceId, summaryType),
                             nextId + 1, sourceId, summaryType, v)
    /\ issued' = Inserted(issued, <<rows'[Len(rows')]>>)
    /\ nextId' = nextId + 1
    /\ opsUsed' = opsUsed \cup {"createSummary"}
    /\ lastBatch' = NoBatch
    /\ UNCHANGED <<auxVars, segVars, pipeVars, usePostgres, writers, wpc>>

(* createSummary on postgres: three awaited statements, no transaction.    *)
CreateSummaryPgRead(p, sourceId, summaryType) ==
    /\ usePostgres
    /\ wpc[p].pc = "idle"
    /\ nextId < MaxInserts
    /\ wpc' = [wpc EXCEPT ![p] =
                 [pc |-> "flip", id |-> nextId + 1, sourceId |-> sourceId,
                  summaryType |-> summaryType,
                  nextVersion |-> NextVersion(rows, sourceId, summaryType)]]
    /\ nextId' = nextId + 1
    /\ opsUsed' = opsUsed \cup {"createSummary"}
    /\ lastBatch' = NoBatch
    /\ UNCHANGED <<auxVars, segVars, pipeVars, usePostgres, writers, rows, issued>>

CreateSummaryPgFlip(p) ==
    /\ wpc[p].pc = "flip"
    /\ rows' = MarkNotCurrent(rows, wpc[p].sourceId, wpc[p].summaryType)
    /\ wpc' = [wpc EXCEPT ![p].pc = "insert"]
    /\ lastBatch' = NoBatch
    /\ UNCHANGED <<auxVars, segVars, pipeVars, usePostgres, writers, nextId, opsUsed, issued>>

CreateSummaryPgInsert(p) ==
    /\ wpc[p].pc = "insert"
    /\ rows' = InsertRow(rows, wpc[p].id, wpc[p].sourceId, wpc[p].summaryType,
                         wpc[p].nextVersion)
    /\ wpc' = [wpc EXCEPT ![p] = Idle]
    /\ issued' = Inserted(issued, <<rows'[Len(rows')]>>)
    /\ lastBatch' = NoBatch
    /\ UNCHANGED <<auxVars, segVars, pipeVars, usePostgres, writers, nextId, opsUsed>>

(* createSummaries: one pass over the batch. versionMap remembers the       *)
(* version computed for a `${sourceId}:${summaryType}` key; the max-version *)
(* read and the flip run only for a key not yet in the map. On postgres the *)
(* loop runs inside sql.begin (one transaction, applied at commit); on      *)
(* sqlite it runs without an await. Either way the call is one step.        *)
BatchStart(rs) ==
    [rs |-> rs, versionMap |-> <<>>, keys |-> {}, reads |-> <<>>, flips |-> <<>>,
     inserted |-> <<>>]

\* a batch row that ignores versionMap: reads and flips again for every row
BatchRowNoMap(st, data, id) ==
    LET key == <<data[1], data[2]>>
        nextVersion == NextVersion(st.rs, data[1], data[2])
        after == InsertRow(MarkNotCurrent(st.rs, data[1], data[2]), id, data[1], data[2],
                           nextVersion)
    IN  [rs |-> after,
         versionMap |-> Append(st.versionMap, [key |-> key, version |-> nextVersion]),
         keys |-> st.keys \cup {key},
         reads |-> Append(st.reads, key),
         flips |-> Append(st.flips, key),
         inserted |-> Append(st.inserted, after[Len(after)])]

BatchRow(st, data, id) ==
    LET key == <<data[1], data[2]>>
        seen == key \in st.keys
        nextVersion == IF seen
                       THEN st.versionMap[CHOOSE k \in 1..Len(st.versionMap) :
                                              st.versionMap[k].key = key].version
                       ELSE NextVersion(st.rs, data[1], data[2])
        flipped == IF seen THEN st.rs ELSE MarkNotCurrent(st.rs, data[1], data[2])
        after == InsertRow(flipped, id, data[1], data[2], nextVersion)
    IN  [rs |-> after,
         versionMap |-> IF seen THEN st.versionMap
                        ELSE Append(st.versionMap, [key |-> key, version |-> nextVersion]),
         keys |-> st.keys \cup {key},
         reads |-> IF seen THEN st.reads ELSE Append(st.reads, key),
         flips |-> IF seen THEN st.flips ELSE Append(st.flips, key),
         inserted |-> Append(st.inserted, after[Len(after)])]

RECURSIVE BatchLoop(_, _, _, _)
BatchLoop(st, batch, i, firstId) ==
    IF i > Len(batch) THEN st
    ELSE BatchLoop(BatchRow(st, batch[i], firstId + i), batch, i + 1, firstId)

Batches == UNION {[1..n -> Scopes] : n \in 1..MaxBatch}

CreateSummaries(p, batch) ==
    /\ wpc[p].pc = "idle"
    /\ nextId + Len(batch) <= MaxInserts
    /\ LET st == BatchLoop(BatchStart(rows), batch, 1, nextId)
       IN  /\ rows' = st.rs
           /\ lastBatch' = [input |-> batch, before |-> rows, inserted |-> st.inserted,
                            reads |-> st.reads, flips |-> st.flips]
           /\ issued' = Inserted(issued, st.inserted)
    /\ nextId' = nextId + Len(batch)
    /\ opsUsed' = opsUsed \cup {"createSummaries"}
    /\ UNCHANGED <<auxVars, segVars, pipeVars, usePostgres, writers, wpc>>

(* updateSummary: sets title/content/quality_score/user_rating of the row   *)
(* with the id; version and is_current are not in the SET list.             *)
UpdateSummary(p, i) ==
    /\ wpc[p].pc = "idle"
    /\ i \in 1..Len(rows)
    /\ rows' = [rows EXCEPT ![i].content = "edited"]
    /\ opsUsed' = opsUsed \cup {"updateSummary"}
    /\ lastBatch' = NoBatch
    /\ UNCHANGED <<auxVars, segVars, pipeVars, usePostgres, writers, nextId, wpc, issued>>

(* deleteSummary: DELETE FROM summaries WHERE id = ?                        *)
DeleteSummary(p, i) ==
    /\ wpc[p].pc = "idle"
    /\ i \in 1..Len(rows)
    /\ rows' = SelectSeq(rows, LAMBDA r : r.id # rows[i].id)
    /\ opsUsed' = opsUsed \cup {"deleteSummary"}
    /\ lastBatch' = NoBatch
    /\ UNCHANGED <<auxVars, segVars, pipeVars, usePostgres, writers, nextId, wpc, issued>>

RepoIdle ==
    /\ usePostgres = FALSE
    /\ writers = {}
    /\ rows = <<>>
    /\ nextId = 0
    /\ wpc = [p \in Callers |-> Idle]
    /\ opsUsed = {}
    /\ lastBatch = NoBatch
    /\ issued = {}

\* segmentDocument is not being called
SegIdle ==
    /\ text = <<>>
    /\ budget = 0
    /\ respect = TRUE
    /\ segPc = "idle"
    /\ segOut = <<>>

\* generateSingleSummary has returned nothing (yet)
NoSummary == [summaryType |-> "", title |-> <<>>, content |-> 0]

SingleIdle ==
    /\ singleType = ""
    /\ single = NoSummary

AggregateIdle ==
    /\ includeThemes = TRUE
    /\ includeInsights = TRUE
    /\ summariesToAggregate = <<>>
    /\ apc = "idle"
    /\ promises = <<>>
    /\ responses = <<>>
    /\ aggregate = <<>>

UtilIdle ==
    /\ concepts = <<>>
    /\ duplicates = [returned |-> FALSE, entries |-> <<>>]
    /\ texts = <<>>
    /\ estimates = <<>>

\* no POST /api/summaries request is being served
RouteIdle ==
    /\ forceRegenerate = FALSE
    /\ rpc = "idle"
    /\ documentSegments = <<>>
    /\ stored = [segments |-> <<>>, summaries |-> <<>>]

\* no POST /api/process request is being served
ProcessIdle ==
    /\ status = "pending"
    /\ lessons = {}
    /\ proc = [p \in Callers |-> [pc |-> "idle", lessonCount |-> 0]]
    /\ wasComplete = FALSE

\* normalizeConcept is not being applied on its own
NormalizeIdle ==
    /\ rawConcept = <<>>
    /\ normalForms = <<>>

AuxIdle == SingleIdle /\ AggregateIdle /\ UtilIdle /\ RouteIdle /\ ProcessIdle /\ NormalizeIdle

----------------------------------------------------------------------------
(* Texts *)

\* a word character, a space, a newline and the markdown heading marker
Alphabet == {"a", " ", "\n", "#"}

Texts == UNION {[1..n -> Alphabet] : n \in 0..MaxLen}

\* what /\s/ and String.prototype.trim treat as whitespace, within Alphabet
IsSpace(c) == c \in {" ", "\n"}

\* the characters of /[.,!?;:'"()\[\]{}]/
Punctuation == {".", ",", "!", "?", ";", ":", "'", "\"", "(", ")", "[", "]", "{", "}"}

SetMin(S) == CHOOSE x \in S : \A y \in S : x <= y
SetMax(S) == CHOOSE x \in S : \A y \in S : y <= x

\* the elements of a set of integers, in increasing order
Sorted(S) ==
    [k \in 1..Cardinality(S) |-> CHOOSE x \in S : Cardinality({y \in S : y < x}) = k - 1]

\* text.slice(from, to) with 0-based offsets, 0 <= from, to clipped to the length
Slice(t, from, to) == SubSeq(t, from + 1, IF to > Len(t) THEN Len(t) ELSE to)

\* text.trim()
Trim(t) ==
    LET solid == {i \in 1..Len(t) : ~IsSpace(t[i])}
    IN  IF solid = {} THEN <<>> ELSE SubSeq(t, SetMin(solid), SetMax(solid))

\* text.split(/\s+/).filter(w => w.length > 0).length
WordCount(t) ==
    Cardinality({i \in 1..Len(t) : ~IsSpace(t[i]) /\ (i = 1 \/ IsSpace(t[i - 1]))})

PunctuationCount(t) == Cardinality({i \in 1..Len(t) : t[i] \in Punctuation})

\* Math.ceil(words * 1.3 + punctuation * 0.5)
estimateTokens(t) == (13 * WordCount(t) + 5 * PunctuationCount(t) + 9) \div 10

\* tokens * 4
tokensToChars(tokens) == tokens * 4

----------------------------------------------------------------------------
(* detectStructure *)

\* the value of an absent map entry or an unset optional field
Undefined == <<"undefined">>

Falsy(title) == title = Undefined \/ title = <<>>

\* the offsets (0-based) at which the lines of text.split('\n') start
LineStarts(t) == {0} \cup {j \in 1..Len(t) : t[j] = "\n"}

LineAt(t, start) ==
    LET ends == {j \in (start + 1)..Len(t) : t[j] = "\n"}
    IN  Slice(t, start, IF ends = {} THEN Len(t) ELSE SetMin(ends) - 1)

\* the number of leading '#' of a line
Hashes(line) ==
    IF \A i \in 1..Len(line) : line[i] = "#" THEN Len(line)
    ELSE SetMin({i \in 1..Len(line) : line[i] # "#"}) - 1

\* The first pattern of the list that matches line.trim(). The chapter/part/section, numbered, roman and all-caps patterns
\* need a digit or a capital letter and match no line over Alphabet; what is
\* left are /^(#{1}\s+(.*))/ (level 1), /^(#{2}\s+(.*))/ (2), /^(#{3}\s+(.*))/
\* (3) and /^(#{4,}\s+(.*))/ (4): k hashes, whitespace, and the rest as the
\* title, from which .trim().replace(/^#+\s*/, '') strips one more run of hashes.
MatchHeading(line) ==
    LET tl == Trim(line)
        k == Hashes(tl)
    IN  IF k >= 1 /\ k < Len(tl) /\ IsSpace(tl[k + 1])
        THEN LET rest == Trim(SubSeq(tl, k + 1, Len(tl)))
             IN  [matched |-> TRUE,
                  level |-> IF k >= 4 THEN 4 ELSE k,
                  title |-> Trim(SubSeq(rest, Hashes(rest) + 1, Len(rest)))]
        ELSE [matched |-> FALSE, level |-> 0, title |-> <<>>]

detectStructure(t) ==
    LET hits == {s \in LineStarts(t) : MatchHeading(LineAt(t, s)).matched}
    IN  [boundaries |-> Sorted({0} \cup hits),
         titles |-> [s \in hits |-> MatchHeading(LineAt(t, s)).title],
         levels |-> [s \in hits |-> MatchHeading(LineAt(t, s)).level]]

\* titles.get(offset)
TitleAt(structure, offset) ==
    IF offset \in DOMAIN structure.titles THEN structure.titles[offset] ELSE Undefined

\* levels.get(offset) || 0
LevelAt(structure, offset) ==
    IF offset \in DOMAIN structure.levels THEN structure.levels[offset] ELSE 0

----------------------------------------------------------------------------
(* segmentDocument *)

Segment(index, start, end, title, level, body) ==
    [segmentIndex |-> index, startIndex |-> start, endIndex |-> end,
     sectionTitle |-> title, level |-> level,
     estimatedTokens |-> estimateTokens(body), text |-> body]

\* text.split(/\n\n+/): the pieces between the runs of two or more newlines;
\* a run at the very start or end leaves an empty piece there
InSeparator(t, i) ==
    /\ t[i] = "\n"
    /\ \/ (i > 1 /\ t[i - 1] = "\n")
       \/ (i < Len(t) /\ t[i + 1] = "\n")

SplitParagraphs(t) ==
    IF t = <<>> THEN << <<>> >>
    ELSE LET starts == {i \in 1..Len(t) :
                            ~InSeparator(t, i) /\ (i = 1 \/ InSeparator(t, i - 1))}
             EndOf(s) == SetMin({j \in s..Len(t) : j = Len(t) \/ InSeparator(t, j + 1)})
             order == Sorted(starts)
             middle == [k \in 1..Len(order) |-> SubSeq(t, order[k], EndOf(order[k]))]
         IN  (IF InSeparator(t, 1) THEN << <<>> >> ELSE <<>>)
                 \o middle
                 \o (IF InSeparator(t, Len(t)) THEN << <<>> >> ELSE <<>>)

\* a size loop that never advances currentSegmentStart
RECURSIVE SizeLoopStuckStart(_, _, _, _, _)
SizeLoopStuckStart(st, paragraphs, i, maxChars, offsetInDocument) ==
    IF i > Len(paragraphs) THEN st
    ELSE LET paraWithBreak == paragraphs[i] \o <<"\n", "\n">>
         IN  IF Len(st.currentSegmentText) + Len(paraWithBreak) > maxChars
                    /\ st.currentSegmentText # <<>>
             THEN LET segmentText == Trim(st.currentSegmentText)
                      start == offsetInDocument + st.currentSegmentStart
                  IN  SizeLoopStuckStart(
                          [segments |-> Append(st.segments,
                               Segment(st.segmentIndex, start, start + Len(segmentText),
                                       Undefined, 0, segmentText)),
                           segmentIndex |-> st.segmentIndex + 1,
                           currentSegmentStart |-> st.currentSegmentStart,
                           currentSegmentText |-> paraWithBreak],
                          paragraphs, i + 1, maxChars, offsetInDocument)
             ELSE SizeLoopStuckStart([st EXCEPT !.currentSegmentText = @ \o paraWithBreak],
                                     paragraphs, i + 1, maxChars, offsetInDocument)

\* a size loop that skips a paragraph that does not fit an empty segment
RECURSIVE SizeLoopDropOversized(_, _, _, _, _)
SizeLoopDropOversized(st, paragraphs, i, maxChars, offsetInDocument) ==
    IF i > Len(paragraphs) THEN st
    ELSE LET paraWithBreak == paragraphs[i] \o <<"\n", "\n">>
         IN  IF Len(st.currentSegmentText) + Len(paraWithBreak) > maxChars
             THEN IF st.currentSegmentText = <<>>
                  THEN SizeLoopDropOversized(st, paragraphs, i + 1, maxChars,
                                             offsetInDocument)
                  ELSE LET segmentText == Trim(st.currentSegmentText)
                           start == offsetInDocument + st.currentSegmentStart
                       IN  SizeLoopDropOversized(
                               [segments |-> Append(st.segments,
                                    Segment(st.segmentIndex, start, start + Len(segmentText),
                                            Undefined, 0, segmentText)),
                                segmentIndex |-> st.segmentIndex + 1,
                                currentSegmentStart |->
                                    st.currentSegmentStart + Len(st.currentSegmentText),
                                currentSegmentText |-> paraWithBreak],
                               paragraphs, i + 1, maxChars, offsetInDocument)
             ELSE SizeLoopDropOversized([st EXCEPT !.currentSegmentText = @ \o paraWithBreak],
                                        paragraphs, i + 1, maxChars, offsetInDocument)

\* the loop of segmentBySize over the paragraphs, from paragraph i on
RECURSIVE SizeLoop(_, _, _, _, _)
SizeLoop(st, paragraphs, i, maxChars, offsetInDocument) ==
    IF i > Len(paragraphs) THEN st
    ELSE LET paraWithBreak == paragraphs[i] \o <<"\n", "\n">>
         IN  IF Len(st.currentSegmentText) + Len(paraWithBreak) > maxChars
                    /\ st.currentSegmentText # <<>>
             THEN LET segmentText == Trim(st.currentSegmentText)
                      start == offsetInDocument + st.currentSegmentStart
                  IN  SizeLoop(
                          [segments |-> Append(st.segments,
                               Segment(st.segmentIndex, start, start + Len(segmentText),
                                       Undefined, 0, segmentText)),
                           segmentIndex |-> st.segmentIndex + 1,
                           currentSegmentStart |->
                               st.currentSegmentStart + Len(st.currentSegmentText),
                           currentSegmentText |-> paraWithBreak],
                          paragraphs, i + 1, maxChars, offsetInDocument)
             ELSE SizeLoop([st EXCEPT !.currentSegmentText = @ \o paraWithBreak],
                           paragraphs, i + 1, maxChars, offsetInDocument)

\* a segmentBySize that numbers its segments from 0 whatever startIndex is
segmentBySizeFromZero(t, maxTokensPerSegment, startIndex, offsetInDocument) ==
    LET st == SizeLoop([segments |-> <<>>, segmentIndex |-> 0,
                        currentSegmentStart |-> 0, currentSegmentText |-> <<>>],
                       SplitParagraphs(t), 1, tokensToChars(maxTokensPerSegment),
                       offsetInDocument)
        segmentText == Trim(st.currentSegmentText)
        start == offsetInDocument + st.currentSegmentStart
    IN  IF segmentText # <<>>
        THEN Append(st.segments,
                    Segment(st.segmentIndex, start, start + Len(segmentText),
                            Undefined, 0, segmentText))
        ELSE st.segments

segmentBySize(t, maxTokensPerSegment, startIndex, offsetInDocument) ==
    LET st == SizeLoop([segments |-> <<>>, segmentIndex |-> startIndex,
                        currentSegmentStart |-> 0, currentSegmentText |-> <<>>],
                       SplitParagraphs(t), 1, tokensToChars(maxTokensPerSegment),
                       offsetInDocument)
        segmentText == Trim(st.currentSegmentText)
        start == offsetInDocument + st.currentSegmentStart
    IN  IF segmentText # <<>>
        THEN Append(st.segments,
                    Segment(st.segmentIndex, start, start + Len(segmentText),
                            Undefined, 0, segmentText))
        ELSE st.segments

\* sub-segments passed on as segmentBySize made them, without the section's tags
UntaggedSubSegments(subSegments, sectionTitle, sectionLevel) == subSegments

\* the sub-segments of an oversized section, tagged with the section
TagSubSegments(subSegments, sectionTitle, sectionLevel) ==
    [k \in 1..Len(subSegments) |->
        [subSegments[k] EXCEPT
            !.sectionTitle = IF Falsy(@) THEN sectionTitle ELSE @,
            !.level = IF @ >= sectionLevel THEN @ ELSE sectionLevel]]

FlushPending(st, end) ==
    Append(st.segments,
           Segment(st.segmentIndex, st.pendingStart, end, st.pendingTitle,
                   st.pendingLevel, st.pendingText))

\* one turn of the loop of segmentBySections, for boundary i
SectionStep(st, t, structure, i, maxTokensPerSegment) ==
    LET boundaries == structure.boundaries
        sectionStart == boundaries[i]
        sectionEnd == IF i < Len(boundaries) THEN boundaries[i + 1] ELSE Len(t)
        sectionText == Slice(t, sectionStart, sectionEnd)
        sectionTitle == TitleAt(structure, sectionStart)
        sectionLevel == LevelAt(structure, sectionStart)
    IN  IF estimateTokens(sectionText) > maxTokensPerSegment
        THEN LET flushed == IF st.pendingText # <<>>
                            THEN [st EXCEPT
                                     !.segments = FlushPending(st, sectionStart),
                                     !.segmentIndex = @ + 1,
                                     !.pendingText = <<>>]
                            ELSE st
                 subSegments == segmentBySize(sectionText, maxTokensPerSegment,
                                              flushed.segmentIndex, sectionStart)
             IN  [flushed EXCEPT
                     !.segments = @ \o TagSubSegments(subSegments, sectionTitle,
                                                      sectionLevel),
                     !.segmentIndex = @ + Len(subSegments)]
        ELSE IF estimateTokens(st.pendingText \o sectionText) > maxTokensPerSegment
                   /\ st.pendingText # <<>>
        THEN [segments |-> FlushPending(st, sectionStart),
              segmentIndex |-> st.segmentIndex + 1,
              pendingText |-> sectionText,
              pendingStart |-> sectionStart,
              pendingTitle |-> sectionTitle,
              pendingLevel |-> sectionLevel]
        ELSE IF st.pendingText = <<>>
        THEN [st EXCEPT !.pendingText = sectionText,
                        !.pendingStart = sectionStart,
                        !.pendingTitle = sectionTitle,
                        !.pendingLevel = sectionLevel]
        ELSE [st EXCEPT !.pendingText = @ \o sectionText]

\* the loop of segmentBySections over the boundaries, from boundary i on
RECURSIVE SectionLoop(_, _, _, _, _)
SectionLoop(st, t, structure, i, maxTokensPerSegment) ==
    IF i > Len(structure.boundaries) THEN st
    ELSE SectionLoop(SectionStep(st, t, structure, i, maxTokensPerSegment),
                     t, structure, i + 1, maxTokensPerSegment)

segmentBySections(t, structure, maxTokensPerSegment) ==
    LET st == SectionLoop([segments |-> <<>>, segmentIndex |-> 0,
                           pendingText |-> <<>>, pendingStart |-> 0,
                           pendingTitle |-> Undefined, pendingLevel |-> 0],
                          t, structure, 1, maxTokensPerSegment)
    IN  IF st.pendingText # <<>> THEN FlushPending(st, Len(t)) ELSE st.segments

\* a segmentDocument without the single-segment shortcut for small documents
segmentDocumentNoShortcut(t, maxTokensPerSegment, respectSectionBoundaries) ==
    IF Trim(t) = <<>> THEN <<>>
    ELSE LET structure == detectStructure(t)
         IN  IF respectSectionBoundaries /\ Len(structure.boundaries) > 1
             THEN segmentBySections(t, structure, maxTokensPerSegment)
             ELSE segmentBySize(t, maxTokensPerSegment, 0, 0)

segmentDocument(t, maxTokensPerSegment, respectSectionBoundaries) ==
    IF Trim(t) = <<>> THEN <<>>
    ELSE LET structure == detectStructure(t)
         IN  IF estimateTokens(t) <= maxTokensPerSegment
             THEN << [segmentIndex |-> 0, startIndex |-> 0, endIndex |-> Len(t),
                      sectionTitle |-> IF Falsy(TitleAt(structure, 0)) THEN Undefined
                                       ELSE TitleAt(structure, 0),
                      level |-> LevelAt(structure, 0),
                      estimatedTokens |-> estimateTokens(t), text |-> t] >>
             ELSE IF respectSectionBoundaries /\ Len(structure.boundaries) > 1
             THEN segmentBySections(t, structure, maxTokensPerSegment)
             ELSE segmentBySize(t, maxTokensPerSegment, 0, 0)

----------------------------------------------------------------------------
(* generateHierarchicalSummaries *)

(* The text the generation capability returns is opaque. A returned text is *)
(* modelled by a number: 0 is the empty text, k > 0 the non-empty text the  *)
(* k-th call of the run produced, so that every text names its origin.      *)
EmptyText == 0

\* the keys of the AI_CONFIG object
AiConfigKeys == {"model", "maxInputChars", "tokenLimits", "contentGuidelines",
                 "flashcardTypes", "hintGuidelines"}

\* reading AI_CONFIG.summarization.detailedOutputTokens throws a TypeError
\* unless AI_CONFIG has a summarization object
CanReadDetailedOutputTokens == "summarization" \in AiConfigKeys

\* the message prefix each generate function's catch block puts on a failure
StepLabel(step) ==
    CASE step = "segment" -> "Failed to generate segment summary"
      [] step = "key_points" -> "Failed to generate key points summary"
      [] step = "executive" -> "Failed to generate executive summary"
      [] step = "detailed" -> "Failed to generate detailed summary"

NoResult == [segments |-> <<>>, summaries |-> <<>>]

\* Math.round((current / totalSteps) * 80)
SegmentPercent(current, totalSteps) == (160 * current + totalSteps) \div (2 * totalSteps)

\* a detailed step that is also fed the key points
DetailedArgsWithKeyPoints == Append(segmentTexts, keyPoints)

\* the arguments the orchestrator hands to the generate functions
SegmentArgs == <<segIdx>>
KeyPointsArgs == segmentTexts
ExecutiveArgs == <<keyPoints>>
DetailedArgs == segmentTexts

\* a generate function that throws: the run ends with that error
Throw(message) ==
    /\ ppc' = "failed"
    /\ error' = message
    /\ UNCHANGED <<inflight, calls, segIdx, segmentTexts, segmentSummaries, keyPoints,
                   executive, result>>

\* anthropic.messages.create(...) is awaited
Issue(step, index, args) ==
    /\ inflight' = inflight \cup {[step |-> step, index |-> index, input |-> args]}
    /\ UNCHANGED <<ppc, error, calls, segIdx, segmentTexts, segmentSummaries, keyPoints,
                   executive, result>>

(* Phase 1: segment the document (with the default options).               *)
Phase1Segment ==
    /\ ppc = "start"
    /\ progress' = Append(progress, 5)
    /\ segments' = segmentDocument(text, budget, respect)
    /\ ppc' = IF segments' = <<>> THEN "key_points" ELSE "segment"
    /\ UNCHANGED <<auxVars, repoVars, segVars, sourceTitle, segIdx, segmentTexts, segmentSummaries,
                   keyPoints, executive, inflight, invoked, calls, error, result>>

(* Phase 2, one turn of the loop up to the await in generateSegmentSummary. *)
IssueSegmentCall ==
    /\ ppc = "segment"
    /\ inflight = {}
    /\ progress' = Append(progress, SegmentPercent(segIdx + 1, Len(segments) + 3))
    /\ invoked' = Append(invoked, [step |-> "segment", index |-> segIdx, input |-> SegmentArgs])
    /\ IF sourceTitle = ""
       THEN Throw("sourceTitle is required and must be a string")
       ELSE IF Trim(segments[segIdx + 1].text) = <<>>
       THEN Throw("Segment has no text content")
       ELSE Issue("segment", segIdx, SegmentArgs)
    /\ UNCHANGED <<auxVars, repoVars, segVars, sourceTitle, segments>>

(* Phase 3 up to the await in generateKeyPointsSummary.                     *)
IssueKeyPointsCall ==
    /\ ppc = "key_points"
    /\ inflight = {}
    /\ progress' = Append(progress, 85)
    /\ invoked' = Append(invoked, [step |-> "key_points", index |-> 0, input |-> KeyPointsArgs])
    /\ IF sourceTitle = ""
       THEN Throw("sourceTitle is required and must be a string")
       ELSE IF KeyPointsArgs = <<>>
       THEN Throw("At least one segment summary is required")
       ELSE Issue("key_points", 0, KeyPointsArgs)
    /\ UNCHANGED <<auxVars, repoVars, segVars, sourceTitle, segments>>

(* Phase 4 up to the await in generateExecutiveSummary.                     *)
IssueExecutiveCall ==
    /\ ppc = "executive"
    /\ inflight = {}
    /\ progress' = Append(progress, 92)
    /\ invoked' = Append(invoked, [step |-> "executive", index |-> 0, input |-> ExecutiveArgs])
    /\ IF sourceTitle = ""
       THEN Throw("sourceTitle is required and must be a string")
       ELSE IF ExecutiveArgs[1] = EmptyText
       THEN Throw("keyPointsSummary is required and must be non-empty")
       ELSE Issue("executive", 0, ExecutiveArgs)
    /\ UNCHANGED <<auxVars, repoVars, segVars, sourceTitle, segments>>

(* Phase 5 up to the await in generateDetailedSummary. The request object   *)
(* is built inside the try block; building it reads the output-token limit. *)
IssueDetailedCall ==
    /\ ppc = "detailed"
    /\ inflight = {}
    /\ progress' = Append(progress, 97)
    /\ invoked' = Append(invoked, [step |-> "detailed", index |-> 0, input |-> DetailedArgs])
    /\ IF sourceTitle = ""
       THEN Throw("sourceTitle is required and must be a string")
       ELSE IF DetailedArgs = <<>>
       THEN Throw("At least one segment summary is required")
       ELSE IF ~CanReadDetailedOutputTokens
       THEN Throw(StepLabel("detailed"))
       ELSE Issue("detailed", 0, DetailedArgs)
    /\ UNCHANGED <<auxVars, repoVars, segVars, sourceTitle, segments>>

\* the title of a segment summary: segments[i].sectionTitle || `Segment ${i + 1}`
SegmentTitle(i) ==
    IF Falsy(segments[i + 1].sectionTitle) THEN <<"Segment", i + 1>>
    ELSE segments[i + 1].sectionTitle

Summary(summaryType, title, content) ==
    [summaryType |-> summaryType, title |-> title, content |-> content]

\* what the orchestrator does with the text a generate function returned
Continue(call, content) ==
    CASE call.step = "segment" ->
            /\ segmentTexts' = Append(segmentTexts, content)
            /\ segmentSummaries' = Append(segmentSummaries,
                   Summary("segment", SegmentTitle(call.index), content))
            /\ segIdx' = segIdx + 1
            /\ ppc' = IF segIdx + 1 < Len(segments) THEN "segment" ELSE "key_points"
            /\ UNCHANGED <<keyPoints, executive, result, error, progress>>
      [] call.step = "key_points" ->
            /\ keyPoints' = content
            /\ ppc' = "executive"
            /\ UNCHANGED <<segmentTexts, segmentSummaries, segIdx, executive, result, error,
                           progress>>
      [] call.step = "executive" ->
            /\ executive' = content
            /\ ppc' = "detailed"
            /\ UNCHANGED <<segmentTexts, segmentSummaries, segIdx, keyPoints, result, error,
                           progress>>
      [] call.step = "detailed" ->
            /\ progress' = Append(progress, 100)
            /\ result' = [segments |-> segments,
                          summaries |-> <<Summary("executive", <<"Executive Summary">>, executive),
                                          Summary("key_points", <<"Key Points">>, keyPoints),
                                          Summary("detailed", <<"Detailed Summary">>, content)>>
                                        \o segmentSummaries]
            /\ ppc' = "done"
            /\ UNCHANGED <<segmentTexts, segmentSummaries, segIdx, keyPoints, executive, error>>

\* a catch block that swallows the failure and goes on with an empty text
SwallowFailure(call) == Continue(call, EmptyText)

\* what a generate function does when its call fails: the catch block rethrows
\* with the step's label, and nothing catches it in the orchestrator
Rethrow(call) ==
    /\ ppc' = "failed"
    /\ error' = StepLabel(call.step)
    /\ UNCHANGED <<segmentTexts, segmentSummaries, segIdx, keyPoints, executive, result,
                   progress>>

(* The awaited generation call settles: it fails, or it returns a response  *)
(* whose text blocks join to an empty or a non-empty text.                  *)
GenerationSettles(call, outcome) ==
    /\ call \in inflight
    /\ inflight' = inflight \ {call}
    /\ LET content == IF outcome = "text" THEN Len(calls) + 1 ELSE EmptyText
       IN  /\ calls' = Append(calls, [step |-> call.step, index |-> call.index,
                                      input |-> call.input, ok |-> outcome # "fail",
                                      content |-> content])
           /\ IF outcome = "fail" THEN Rethrow(call) ELSE Continue(call, content)
    /\ UNCHANGED <<auxVars, repoVars, segVars, sourceTitle, segments, invoked>>

Outcomes == {"fail", "empty", "text"}

PipeTexts == UNION {[1..n -> Alphabet] : n \in 0..MaxPipeLen}

PipeIdle ==
    /\ sourceTitle = ""
    /\ ppc = "idle"
    /\ segments = <<>>
    /\ segIdx = 0
    /\ segmentTexts = <<>>
    /\ segmentSummaries = <<>>
    /\ keyPoints = EmptyText
    /\ executive = EmptyText
    /\ inflight = {}
    /\ invoked = <<>>
    /\ calls = <<>>
    /\ progress = <<>>
    /\ error = ""
    /\ result = NoResult

(* The default maxTokensPerSegment is 15000 tokens; documents of that size  *)
(* are out of reach here, so the run is taken for every budget up to        *)
(* MaxBudget, which leads short texts through the same branches of          *)
(* segmentDocument.                                                         *)
InitPipe ==
    /\ text \in PipeTexts
    /\ budget \in 0..MaxBudget
    /\ respect = TRUE
    /\ segPc = "idle"
    /\ segOut = <<>>
    /\ sourceTitle \in {"", "T"}
    /\ ppc = "start"
    /\ segments = <<>>
    /\ segIdx = 0
    /\ segmentTexts = <<>>
    /\ segmentSummaries = <<>>
    /\ keyPoints = EmptyText
    /\ executive = EmptyText
    /\ inflight = {}
    /\ invoked = <<>>
    /\ calls = <<>>
    /\ progress = <<>>
    /\ error = ""
    /\ result = NoResult
    /\ RepoIdle
    /\ AuxIdle

NextPipe ==
    \/ Phase1Segment
    \/ IssueSegmentCall
    \/ IssueKeyPointsCall
    \/ IssueExecutiveCall
    \/ IssueDetailedCall
    \/ \E call \in inflight : \E outcome \in Outcomes : GenerationSettles(call, outcome)

SpecPipe == InitPipe /\ [][NextPipe]_vars

\* The runs on the shortest documents, which are never suspended forever:
\* the event loop resumes the function and every awaited generation call
\* settles.
InitPipeLive == InitPipe /\ Len(text) <= MaxLiveLen

SpecPipeLive == InitPipeLive /\ [][NextPipe]_vars /\ WF_vars(NextPipe)

----------------------------------------------------------------------------
(* generateHierarchicalSummaries on documents of many paragraphs *)

\* n one-word paragraphs separated by blank lines
Paragraphs(n) == [i \in 1..(3 * n - 2) |-> IF i % 3 = 1 THEN "a" ELSE "\n"]

LongTexts == {Paragraphs(n) : n \in 1..MaxParagraphs}

\* with a budget of 0 every paragraph becomes a segment of its own
InitLong ==
    /\ text \in LongTexts
    /\ budget = 0
    /\ respect = TRUE
    /\ segPc = "idle"
    /\ segOut = <<>>
    /\ sourceTitle = "T"
    /\ ppc = "start"
    /\ segments = <<>>
    /\ segIdx = 0
    /\ segmentTexts = <<>>
    /\ segmentSummaries = <<>>
    /\ keyPoints = EmptyText
    /\ executive = EmptyText
    /\ inflight = {}
    /\ invoked = <<>>
    /\ calls = <<>>
    /\ progress = <<>>
    /\ error = ""
    /\ result = NoResult
    /\ RepoIdle
    /\ AuxIdle

SpecLong == InitLong /\ [][NextPipe]_vars

----------------------------------------------------------------------------
(* generateSingleSummary *)

\* type SummaryType
SingleKinds == {"executive", "key_points", "detailed", "segment"}

\* summaryType.charAt(0).toUpperCase() + summaryType.slice(1).replace('_', ' ')
Capitalized(kind) ==
    CASE kind = "executive" -> "Executive"
      [] kind = "key_points" -> "Key points"
      [] kind = "detailed" -> "Detailed"
      [] kind = "segment" -> "Segment"

\* the case of the switch that runs after the loop over the segments
AfterSegments == IF singleType = "detailed" THEN "detailed" ELSE "key_points"

(* The branch on summaryType; a non-segment kind segments the document.     *)
SingleStart ==
    /\ ppc = "start"
    /\ singleType \in SingleKinds
    /\ IF singleType # "segment"
       THEN /\ segments' = segmentDocument(text, budget, respect)
            /\ ppc' = IF segments' = <<>> THEN AfterSegments ELSE "segment"
       ELSE /\ segments' = segments
            /\ ppc' = "whole"
    /\ UNCHANGED <<repoVars, segVars, singleVars, aggVars, utilVars, routeVars, processVars, normVars, sourceTitle, segIdx, segmentTexts,
                   segmentSummaries, keyPoints, executive, inflight, invoked, calls,
                   progress, error, result>>

(* One turn of the loop over the segments, up to the await.                 *)
SingleIssueSegmentCall ==
    /\ ppc = "segment"
    /\ singleType \in SingleKinds
    /\ inflight = {}
    /\ invoked' = Append(invoked, [step |-> "segment", index |-> segIdx, input |-> SegmentArgs])
    /\ IF sourceTitle = ""
       THEN Throw("sourceTitle is required and must be a string")
       ELSE IF Trim(segments[segIdx + 1].text) = <<>>
       THEN Throw("Segment has no text content")
       ELSE Issue("segment", segIdx, SegmentArgs)
    /\ UNCHANGED <<repoVars, segVars, singleVars, aggVars, utilVars, routeVars, processVars, normVars, sourceTitle, segments, progress>>

(* Kind segment: the whole text is handed over as one implicit segment.     *)
SingleIssueWholeTextCall ==
    /\ ppc = "whole"
    /\ inflight = {}
    /\ invoked' = Append(invoked, [step |-> "segment", index |-> 0, input |-> <<text>>])
    /\ IF sourceTitle = ""
       THEN Throw("sourceTitle is required and must be a string")
       ELSE IF Trim(text) = <<>>
       THEN Throw("Segment has no text content")
       ELSE Issue("segment", 0, <<text>>)
    /\ UNCHANGED <<repoVars, segVars, singleVars, aggVars, utilVars, routeVars, processVars, normVars, sourceTitle, segments, progress>>

SingleIssueKeyPointsCall ==
    /\ ppc = "key_points"
    /\ singleType \in SingleKinds
    /\ inflight = {}
    /\ invoked' = Append(invoked, [step |-> "key_points", index |-> 0, input |-> KeyPointsArgs])
    /\ IF sourceTitle = ""
       THEN Throw("sourceTitle is required and must be a string")
       ELSE IF KeyPointsArgs = <<>>
       THEN Throw("At least one segment summary is required")
       ELSE Issue("key_points", 0, KeyPointsArgs)
    /\ UNCHANGED <<repoVars, segVars, singleVars, aggVars, utilVars, routeVars, processVars, normVars, sourceTitle, segments, progress>>

SingleIssueExecutiveCall ==
    /\ ppc = "executive"
    /\ singleType \in SingleKinds
    /\ inflight = {}
    /\ invoked' = Append(invoked, [step |-> "executive", index |-> 0, input |-> ExecutiveArgs])
    /\ IF sourceTitle = ""
       THEN Throw("sourceTitle is required and must be a string")
       ELSE IF ExecutiveArgs[1] = EmptyText
       THEN Throw("keyPointsSummary is required and must be non-empty")
       ELSE Issue("executive", 0, ExecutiveArgs)
    /\ UNCHANGED <<repoVars, segVars, singleVars, aggVars, utilVars, routeVars, processVars, normVars, sourceTitle, segments, progress>>

SingleIssueDetailedCall ==
    /\ ppc = "detailed"
    /\ singleType \in SingleKinds
    /\ inflight = {}
    /\ invoked' = Append(invoked, [step |-> "detailed", index |-> 0, input |-> DetailedArgs])
    /\ IF sourceTitle = ""
       THEN Throw("sourceTitle is required and must be a string")
       ELSE IF DetailedArgs = <<>>
       THEN Throw("At least one segment summary is required")
       ELSE IF ~CanReadDetailedOutputTokens
       THEN Throw(StepLabel("detailed"))
       ELSE Issue("detailed", 0, DetailedArgs)
    /\ UNCHANGED <<repoVars, segVars, singleVars, aggVars, utilVars, routeVars, processVars, normVars, sourceTitle, segments, progress>>

\* the return statement of generateSingleSummary
SingleReturn(content) ==
    /\ single' = Summary(singleType, <<Capitalized(singleType), sourceTitle>>, content)
    /\ ppc' = "done"
    /\ UNCHANGED <<segmentTexts, segIdx, keyPoints>>

\* what generateSingleSummary does with the text a generate function returned
SingleContinue(call, content) ==
    /\ CASE ppc = "segment" ->
                /\ segmentTexts' = Append(segmentTexts, content)
                /\ segIdx' = segIdx + 1
                /\ ppc' = IF segIdx + 1 < Len(segments) THEN "segment" ELSE AfterSegments
                /\ UNCHANGED <<keyPoints, single>>
          [] ppc = "key_points" /\ singleType = "executive" ->
                /\ keyPoints' = content
                /\ ppc' = "executive"
                /\ UNCHANGED <<segmentTexts, segIdx, single>>
          [] OTHER -> SingleReturn(content)
    /\ UNCHANGED <<segmentSummaries, executive, result, error, progress>>

(* The awaited generation call of a generateSingleSummary run settles.      *)
SingleGenerationSettles(call, outcome) ==
    /\ call \in inflight
    /\ singleType \in SingleKinds
    /\ inflight' = inflight \ {call}
    /\ LET content == IF outcome = "text" THEN Len(calls) + 1 ELSE EmptyText
       IN  /\ calls' = Append(calls, [step |-> call.step, index |-> call.index,
                                      input |-> call.input, ok |-> outcome # "fail",
                                      content |-> content])
           /\ IF outcome = "fail"
              THEN Rethrow(call) /\ single' = single
              ELSE SingleContinue(call, content)
    /\ UNCHANGED <<repoVars, segVars, aggVars, utilVars, routeVars, processVars, normVars, singleType, sourceTitle, segments, invoked>>

InitSingle ==
    /\ text \in PipeTexts
    /\ budget \in 0..MaxBudget
    /\ respect = TRUE
    /\ segPc = "idle"
    /\ segOut = <<>>
    /\ sourceTitle \in {"", "T"}
    /\ singleType \in SingleKinds
    /\ single = NoSummary
    /\ ppc = "start"
    /\ segments = <<>>
    /\ segIdx = 0
    /\ segmentTexts = <<>>
    /\ segmentSummaries = <<>>
    /\ keyPoints = EmptyText
    /\ executive = EmptyText
    /\ inflight = {}
    /\ invoked = <<>>
    /\ calls = <<>>
    /\ progress = <<>>
    /\ error = ""
    /\ result = NoResult
    /\ RepoIdle
    /\ AggregateIdle
    /\ UtilIdle
    /\ RouteIdle
    /\ ProcessIdle
    /\ NormalizeIdle

NextSingle ==
    \/ SingleStart
    \/ SingleIssueSegmentCall
    \/ SingleIssueWholeTextCall
    \/ SingleIssueKeyPointsCall
    \/ SingleIssueExecutiveCall
    \/ SingleIssueDetailedCall
    \/ \E call \in inflight : \E outcome \in Outcomes : SingleGenerationSettles(call, outcome)

SpecSingle == InitSingle /\ [][NextSingle]_vars

----------------------------------------------------------------------------
(* POST /api/collections/[id]/aggregate and generateAggregatedSummary *)

\* the three functions generateAggregatedSummary runs in parallel
AggregationFunctions == {"aggregateSummaries", "findCommonThemes", "extractUniqueInsights"}

\* the sources of the collection, in collection order
CollectionSources == <<"s1", "s2">>

CollectionId == "c1"

\* a JSON number, kept in halves so that 0.5 can be told from 0 and 1
Number(halves) == [type |-> "number", halves |-> halves]
String == [type |-> "string", halves |-> 0]
Null == [type |-> "null"]

\* the values of sourceIndex tried: -1, 0, 0.5, 1, 2 and the string "0"
IndexValues == {Number(-2), Number(0), Number(1), Number(2), Number(4), String}

InsightItems ==
    [type : {"object"}, sourceIndex : IndexValues, insight : {"i1"},
     significance : {"sg"}] \cup {Null}

ThemeItems == [type : {"object"}, theme : {"t1", "t2"}, description : {"d"}] \cup {Null}

Lists(S) == UNION {[1..n -> S] : n \in 0..MaxItems}

\* what the text of a response is to responseText.match(/\[[\s\S]*\]/) and
\* JSON.parse: no bracketed part, a bracketed part that is not JSON, or an array
Unparseable == {"no_array", "bad_json"}

\* a settled generation call: a failure, or a text of some kind; a text
\* that holds a JSON array comes with the array's items
Response(kind, items) == [kind |-> kind, items |-> items]

NoResponse == Response("none", <<>>)

\* the ways the generation call of each function settles
Responses(f) ==
    CASE f = "aggregateSummaries" -> {Response(kind, <<>>) : kind \in Outcomes}
      [] f = "findCommonThemes" ->
            {Response(kind, <<>>) : kind \in {"fail"} \cup Unparseable}
                \cup {Response("array", items) : items \in Lists(ThemeItems)}
      [] f = "extractUniqueInsights" ->
            {Response(kind, <<>>) : kind \in {"fail"} \cup Unparseable}
                \cup {Response("array", items) : items \in Lists(InsightItems)}

NotCalled == [state |-> "none", value |-> <<>>]
Awaiting == [state |-> "awaiting", value |-> <<>>]
Fulfilled(value) == [state |-> "fulfilled", value |-> value]
Rejected == [state |-> "rejected", value |-> <<>>]

NoAggregate == [summary |-> EmptyText, commonThemes |-> <<>>, uniqueInsights |-> <<>>]

\* typeof item.sourceIndex === 'number' && item.sourceIndex >= 0 &&
\* item.sourceIndex < summaries.length
ValidIndex(item, summaries) ==
    /\ item.sourceIndex.type = "number"
    /\ item.sourceIndex.halves >= 0
    /\ item.sourceIndex.halves < 2 * Len(summaries)

\* the try block of extractUniqueInsights on the parsed array: filter, then
\* map; reading a property of null or of summaries[0.5] throws a TypeError,
\* which the catch block turns into []
InsightsOfParsed(parsed, summaries) ==
    IF \E k \in 1..Len(parsed) : parsed[k].type = "null" THEN <<>>
    ELSE LET kept == SelectSeq(parsed, LAMBDA item : ValidIndex(item, summaries))
         IN  IF \E k \in 1..Len(kept) : kept[k].sourceIndex.halves % 2 # 0 THEN <<>>
             ELSE [k \in 1..Len(kept) |->
                      [sourceId |-> summaries[(kept[k].sourceIndex.halves \div 2) + 1].sourceId,
                       insight |-> kept[k].insight,
                       significance |-> kept[k].significance]]

\* what each function returns for a response of its generation call
ValueOf(f, response, summaries) ==
    CASE f = "aggregateSummaries" -> IF response.kind = "text" THEN 1 ELSE EmptyText
      [] f = "findCommonThemes" ->
            IF response.kind \in Unparseable THEN <<>> ELSE response.items
      [] f = "extractUniqueInsights" ->
            IF response.kind \in Unparseable THEN <<>>
            ELSE InsightsOfParsed(response.items, summaries)

\* getSummariesBySource(cs.sourceId, 'key_points', true)[0] for each source that has one
CurrentKeyPoints(rs) ==
    LET Has(s) == \E i \in 1..Len(rs) : InScope(rs[i], s, "key_points") /\ rs[i].isCurrent
        First(s) == rs[SetMin({i \in 1..Len(rs) :
                                  InScope(rs[i], s, "key_points") /\ rs[i].isCurrent})]
        with == SelectSeq(CollectionSources, Has)
    IN  [k \in 1..Len(with) |-> First(with[k])]

(* The route up to its first await on the generation capability. Every     *)
(* function called runs to the await of its generation call.               *)
AggregateRequest ==
    /\ apc = "start"
    /\ summariesToAggregate' = CurrentKeyPoints(rows)
    /\ IF Len(summariesToAggregate') < 2
       THEN /\ apc' = "400"
            /\ promises' = promises
       ELSE IF includeThemes \/ includeInsights
       THEN /\ apc' = "generateAggregatedSummary"
            /\ promises' = [f \in AggregationFunctions |-> Awaiting]
       ELSE /\ apc' = "aggregateSummaries"
            /\ promises' = [promises EXCEPT !["aggregateSummaries"] = Awaiting]
    /\ UNCHANGED <<repoVars, segVars, pipeVars, singleVars, utilVars, routeVars, processVars, normVars, includeThemes, includeInsights,
                   responses, aggregate>>

\* functions whose JSON.parse is not inside a try block: a bracketed text
\* that is not JSON rejects the promise
FunctionSettlesParseThrows(f, response) ==
    /\ promises[f].state = "awaiting"
    /\ responses' = [responses EXCEPT ![f] = response]
    /\ promises' = [promises EXCEPT ![f] =
                       IF response.kind \in {"fail", "bad_json"} THEN Rejected
                       ELSE Fulfilled(ValueOf(f, response, summariesToAggregate))]
    /\ UNCHANGED <<repoVars, segVars, pipeVars, singleVars, utilVars, routeVars, processVars, normVars, includeThemes, includeInsights,
                   summariesToAggregate, apc, aggregate>>

(* The generation call of one of the functions settles and the function    *)
(* runs to its end.                                                        *)
FunctionSettles(f, response) ==
    /\ promises[f].state = "awaiting"
    /\ responses' = [responses EXCEPT ![f] = response]
    /\ promises' = [promises EXCEPT ![f] =
                       IF response.kind = "fail" THEN Rejected
                       ELSE Fulfilled(ValueOf(f, response, summariesToAggregate))]
    /\ UNCHANGED <<repoVars, segVars, pipeVars, singleVars, utilVars, routeVars, processVars, normVars, includeThemes, includeInsights,
                   summariesToAggregate, apc, aggregate>>

\* createSummary(result.summary) on sqlite
SaveAggregate ==
    /\ rows' = InsertRow(MarkNotCurrent(rows, CollectionId, "key_points"), nextId + 1,
                         CollectionId, "key_points",
                         NextVersion(rows, CollectionId, "key_points"))
    /\ nextId' = nextId + 1
    /\ opsUsed' = opsUsed \cup {"createSummary"}
    /\ lastBatch' = NoBatch
    /\ issued' = Inserted(issued, <<rows'[Len(rows')]>>)
    /\ UNCHANGED <<usePostgres, writers, wpc>>

(* Promise.all is fulfilled: generateAggregatedSummary builds its result    *)
(* and the route saves the summary and answers. themes.map reads t.theme,  *)
(* which throws on a null element; the route's catch answers 500.          *)
AggregatedSummaryReturns ==
    /\ apc = "generateAggregatedSummary"
    /\ \A f \in AggregationFunctions : promises[f].state = "fulfilled"
    /\ LET themes == promises["findCommonThemes"].value
           insights == promises["extractUniqueInsights"].value
       IN  IF \E k \in 1..Len(themes) : themes[k].type = "null"
           THEN /\ apc' = "500"
                /\ UNCHANGED <<repoVars, aggregate>>
           ELSE /\ aggregate' =
                       [summary |-> promises["aggregateSummaries"].value,
                        commonThemes |-> [k \in 1..Len(themes) |->
                                             <<themes[k].theme, themes[k].description>>],
                        uniqueInsights |-> insights]
                /\ SaveAggregate
                /\ apc' = "200"
    /\ UNCHANGED <<segVars, pipeVars, singleVars, utilVars, routeVars, processVars, normVars, includeThemes, includeInsights,
                   summariesToAggregate, promises, responses>>

(* Both extractions skipped: the route wraps the aggregation, saves, answers. *)
AggregationOnlyReturns ==
    /\ apc = "aggregateSummaries"
    /\ promises["aggregateSummaries"].state = "fulfilled"
    /\ aggregate' = [summary |-> promises["aggregateSummaries"].value,
                     commonThemes |-> <<>>, uniqueInsights |-> <<>>]
    /\ SaveAggregate
    /\ apc' = "200"
    /\ UNCHANGED <<segVars, pipeVars, singleVars, utilVars, routeVars, processVars, normVars, includeThemes, includeInsights,
                   summariesToAggregate, promises, responses>>

(* An awaited promise is rejected: the route's catch answers 500.          *)
AggregationFails ==
    /\ apc \in {"generateAggregatedSummary", "aggregateSummaries"}
    /\ \E f \in AggregationFunctions : promises[f].state = "rejected"
    /\ apc' = "500"
    /\ UNCHANGED <<repoVars, segVars, pipeVars, singleVars, utilVars, routeVars, processVars, normVars, includeThemes, includeInsights,
                   summariesToAggregate, promises, responses, aggregate>>

\* the key_points summaries the sources of the collection have
KeyPointsRows(sources) ==
    [k \in 1..Len(sources) |->
        [id |-> k, sourceId |-> sources[k], summaryType |-> "key_points",
         version |-> 1, isCurrent |-> TRUE, content |-> "generated"]]

InitAggregate ==
    /\ usePostgres = FALSE
    /\ writers = {}
    /\ rows \in {KeyPointsRows(<<"s1", "s2">>), KeyPointsRows(<<"s1">>)}
    /\ nextId = Len(rows)
    /\ wpc = [p \in Callers |-> Idle]
    /\ opsUsed = {}
    /\ lastBatch = NoBatch
    /\ issued = Inserted({}, rows)
    /\ SegIdle
    /\ PipeIdle
    /\ SingleIdle
    /\ UtilIdle
    /\ RouteIdle
    /\ ProcessIdle
    /\ NormalizeIdle
    /\ includeThemes \in BOOLEAN
    /\ includeInsights \in BOOLEAN
    /\ summariesToAggregate = <<>>
    /\ apc = "start"
    /\ promises = [f \in AggregationFunctions |-> NotCalled]
    /\ responses = [f \in AggregationFunctions |-> NoResponse]
    /\ aggregate = NoAggregate

NextAggregate ==
    \/ AggregateRequest
    \/ \E f \in AggregationFunctions : \E response \in Responses(f) :
           FunctionSettles(f, response)
    \/ AggregatedSummaryReturns
    \/ AggregationOnlyReturns
    \/ AggregationFails

SpecAggregate == InitAggregate /\ [][NextAggregate]_vars

----------------------------------------------------------------------------
(* normalizeConcept and findDuplicateConcepts *)

\* String.prototype.toLowerCase, on one character
ToLowerCase(c) ==
    CASE c = "A" -> "a"
      [] c = "I" -> "i"
      [] c = "S" -> "s"
      [] OTHER -> c

\* replace(/\s+/g, ' ')
CollapseWhitespace(t) ==
    LET heads == {i \in 1..Len(t) : ~IsSpace(t[i]) \/ i = 1 \/ ~IsSpace(t[i - 1])}
        order == Sorted(heads)
    IN  [k \in 1..Len(order) |-> IF IsSpace(t[order[k]]) THEN " " ELSE t[order[k]]]

EndsWith(t, suffix) ==
    /\ Len(t) >= Len(suffix)
    /\ SubSeq(t, Len(t) - Len(suffix) + 1, Len(t)) = suffix

\* replace(/ies$/, 'y')
ReplaceIes(t) ==
    IF EndsWith(t, <<"i", "e", "s">>) THEN Append(SubSeq(t, 1, Len(t) - 3), "y") ELSE t

\* replace(/s$/, '')
DropFinalS(t) == IF EndsWith(t, <<"s">>) THEN SubSeq(t, 1, Len(t) - 1) ELSE t

\* \w
IsWordChar(c) == ~IsSpace(c) /\ c \notin Punctuation /\ c # "#"

\* replace(/\bword\b/g, expansion), from position i on; the expansion is
\* kept as one element
RECURSIVE ReplaceWord(_, _, _, _)
ReplaceWord(t, word, expansion, i) ==
    IF i > Len(t) THEN <<>>
    ELSE IF /\ i + Len(word) - 1 <= Len(t)
            /\ SubSeq(t, i, i + Len(word) - 1) = word
            /\ (i = 1 \/ ~IsWordChar(t[i - 1]))
            /\ (i + Len(word) > Len(t) \/ ~IsWordChar(t[i + Len(word)]))
    THEN <<expansion>> \o ReplaceWord(t, word, expansion, i + Len(word))
    ELSE <<t[i]>> \o ReplaceWord(t, word, expansion, i + 1)

\* the replacement of straight quotes by themselves changes nothing
normalizeConcept(concept) ==
    LET lower == [i \in 1..Len(concept) |-> ToLowerCase(concept[i])]
        spaced == CollapseWhitespace(Trim(lower))
        singular == DropFinalS(ReplaceIes(spaced))
        ai == ReplaceWord(singular, <<"a", "i">>, "artificial intelligence", 1)
        ml == ReplaceWord(ai, <<"m", "l">>, "machine learning", 1)
    IN  ReplaceWord(ml, <<"a", "p", "i">>, "application programming interface", 1)

\* normalized.get(norm) || []
MapGet(map, key) ==
    IF \E k \in 1..Len(map) : map[k].key = key
    THEN map[CHOOSE k \in 1..Len(map) : map[k].key = key].value
    ELSE <<>>

\* Map.prototype.set: a known key keeps its place, a new one goes last
MapSet(map, key, value) ==
    IF \E k \in 1..Len(map) : map[k].key = key
    THEN [k \in 1..Len(map) |-> IF map[k].key = key THEN [key |-> key, value |-> value]
                                ELSE map[k]]
    ELSE Append(map, [key |-> key, value |-> value])

Includes(list, x) == \E k \in 1..Len(list) : list[k] = x

\* a first loop that pushes the summaryId without looking for it
RECURSIVE NormalizedNoIncludes(_, _, _)
NormalizedNoIncludes(normalized, list, i) ==
    IF i > Len(list) THEN normalized
    ELSE LET norm == normalizeConcept(list[i].concept)
         IN  NormalizedNoIncludes(
                 MapSet(normalized, norm, Append(MapGet(normalized, norm), list[i].summaryId)),
                 list, i + 1)

\* the first loop of findDuplicateConcepts, from entry i on
RECURSIVE Normalized(_, _, _)
Normalized(normalized, list, i) ==
    IF i > Len(list) THEN normalized
    ELSE LET norm == normalizeConcept(list[i].concept)
             existing == MapGet(normalized, norm)
             pushed == IF ~Includes(existing, list[i].summaryId)
                       THEN Append(existing, list[i].summaryId)
                       ELSE existing
         IN  Normalized(MapSet(normalized, norm, pushed), list, i + 1)

\* a findDuplicateConcepts that counts references, not distinct summaries
findDuplicateConceptsCountingRepeats(list) ==
    SelectSeq(NormalizedNoIncludes(<<>>, list, 1), LAMBDA entry : Len(entry.value) > 1)

findDuplicateConcepts(list) ==
    SelectSeq(Normalized(<<>>, list, 1), LAMBDA entry : Len(entry.value) > 1)

\* the spellings tried: "ai", "AI ", "ais", "a  i", "ies", "y"
ConceptTexts ==
    { <<"a", "i">>, <<"A", "I", " ">>, <<"a", "i", "s">>, <<"a", " ", " ", "i">>,
      <<"i", "e", "s">>, <<"y">> }

SummaryIds == {"m1", "m2"}

ConceptLists ==
    UNION {[1..n -> [concept : ConceptTexts, summaryId : SummaryIds]] : n \in 0..MaxConcepts}

(* findDuplicateConcepts as a call *)
FindDuplicateConcepts ==
    /\ ~duplicates.returned
    /\ duplicates' = [returned |-> TRUE, entries |-> findDuplicateConcepts(concepts)]
    /\ UNCHANGED <<repoVars, segVars, pipeVars, singleVars, aggVars, routeVars, processVars, normVars, concepts, texts,
                   estimates>>

InitConcepts ==
    /\ concepts \in ConceptLists
    /\ duplicates = [returned |-> FALSE, entries |-> <<>>]
    /\ texts = <<>>
    /\ estimates = <<>>
    /\ RepoIdle
    /\ SegIdle
    /\ PipeIdle
    /\ SingleIdle
    /\ AggregateIdle
    /\ RouteIdle
    /\ ProcessIdle
    /\ NormalizeIdle

NextConcepts == FindDuplicateConcepts

SpecConcepts == InitConcepts /\ [][NextConcepts]_vars

----------------------------------------------------------------------------
(* estimateTokens on its own *)

ShortTexts == UNION {[1..n -> Alphabet] : n \in 0..MaxEstimateLen}

(* estimateTokens applied to each of two texts *)
EstimateTokens ==
    /\ estimates = <<>>
    /\ estimates' = <<estimateTokens(texts[1]), estimateTokens(texts[2])>>
    /\ UNCHANGED <<repoVars, segVars, pipeVars, singleVars, aggVars, routeVars, processVars, normVars, concepts, duplicates,
                   texts>>

InitEstimate ==
    /\ texts \in ShortTexts \X ShortTexts
    /\ estimates = <<>>
    /\ concepts = <<>>
    /\ duplicates = [returned |-> FALSE, entries |-> <<>>]
    /\ RepoIdle
    /\ SegIdle
    /\ PipeIdle
    /\ SingleIdle
    /\ AggregateIdle
    /\ RouteIdle
    /\ ProcessIdle
    /\ NormalizeIdle

NextEstimate == EstimateTokens

SpecEstimate == InitEstimate /\ [][NextEstimate]_vars

----------------------------------------------------------------------------
(* segmentDocument on its own *)

(* segmentDocument as a call: the caller's text and options in, the list out *)
SegmentDocument ==
    /\ segPc = "input"
    /\ segOut' = segmentDocument(text, budget, respect)
    /\ segPc' = "done"
    /\ UNCHANGED <<auxVars, repoVars, pipeVars, text, budget, respect>>

InitSeg ==
    /\ text \in Texts
    /\ budget \in 0..MaxBudget
    /\ respect \in BOOLEAN
    /\ segPc = "input"
    /\ segOut = <<>>
    /\ RepoIdle
    /\ AuxIdle
    /\ PipeIdle

NextSeg == SegmentDocument

SpecSeg == InitSeg /\ [][NextSeg]_vars

----------------------------------------------------------------------------
(* POST /api/summaries *)

\* the source the request names
RequestSource == "s1"

\* rows of document_segments an earlier request stored, for two sources
StoredSegments ==
    << [sourceId |-> "s1", segmentIndex |-> 0], [sourceId |-> "s2", segmentIndex |-> 0] >>

\* SELECT * FROM document_segments WHERE source_id = ?
SegmentsOf(table, sourceId) == SelectSeq(table, LAMBDA s : s.sourceId = sourceId)

\* getSummariesBySource(sourceId): the current summaries of the source
SummariesBySource(rs, sourceId) ==
    SelectSeq(rs, LAMBDA r : r.sourceId = sourceId /\ r.isCurrent)

\* DELETE FROM document_segments WHERE source_id = ?
deleteDocumentSegments(table, sourceId) ==
    SelectSeq(table, LAMBDA s : s.sourceId # sourceId)

(* The handler up to its await of generateHierarchicalSummaries: the source *)
(* is read, the request is answered at once if the source has no text or    *)
(* has summaries and forceRegenerate is not set, the source's segments are  *)
(* deleted if forceRegenerate is set, and the pipeline is started.          *)
SummariesRequest ==
    /\ rpc = "start"
    /\ IF text = <<>>
       THEN /\ rpc' = "400"
            /\ UNCHANGED <<documentSegments, ppc>>
       ELSE IF SummariesBySource(rows, RequestSource) # <<>> /\ ~forceRegenerate
       THEN /\ rpc' = "200"
            /\ UNCHANGED <<documentSegments, ppc>>
       ELSE /\ documentSegments' =
                  IF forceRegenerate
                  THEN deleteDocumentSegments(documentSegments, RequestSource)
                  ELSE documentSegments
            /\ rpc' = "generating"
            /\ ppc' = "start"
    /\ UNCHANGED <<repoVars, segVars, singleVars, aggVars, utilVars, processVars, normVars,
                   forceRegenerate, stored,
                   sourceTitle, segments, segIdx, segmentTexts, segmentSummaries, keyPoints,
                   executive, inflight, invoked, calls, progress, error, result>>

(* generateHierarchicalSummaries threw: the catch block answers 500.        *)
(* The statements after the await (createDocumentSegments, createSummaries  *)
(* and the 200 answer) run once the pipeline returns a result, which it     *)
(* never does while CanReadDetailedOutputTokens is false.                   *)
SummariesRequestFails ==
    /\ rpc = "generating"
    /\ ppc = "failed"
    /\ rpc' = "500"
    /\ UNCHANGED <<repoVars, segVars, pipeVars, singleVars, aggVars, utilVars, processVars, normVars,
                   forceRegenerate, documentSegments, stored>>

RouteTexts == UNION {[1..n -> Alphabet] : n \in 0..MaxRouteLen}

InitSummaries ==
    /\ text \in RouteTexts
    /\ budget \in 0..MaxBudget
    /\ respect = TRUE
    /\ segPc = "idle"
    /\ segOut = <<>>
    /\ sourceTitle \in {"", "T"}
    /\ ppc = "idle"
    /\ segments = <<>>
    /\ segIdx = 0
    /\ segmentTexts = <<>>
    /\ segmentSummaries = <<>>
    /\ keyPoints = EmptyText
    /\ executive = EmptyText
    /\ inflight = {}
    /\ invoked = <<>>
    /\ calls = <<>>
    /\ progress = <<>>
    /\ error = ""
    /\ result = NoResult
    /\ usePostgres = FALSE
    /\ writers = {}
    /\ rows \in {<<>>, KeyPointsRows(<<RequestSource>>)}
    /\ nextId = Len(rows)
    /\ wpc = [p \in Callers |-> Idle]
    /\ opsUsed = {}
    /\ lastBatch = NoBatch
    /\ issued = Inserted({}, rows)
    /\ SingleIdle
    /\ AggregateIdle
    /\ UtilIdle
    /\ ProcessIdle
    /\ NormalizeIdle
    /\ forceRegenerate \in BOOLEAN
    /\ rpc = "start"
    /\ documentSegments \in {<<>>, StoredSegments}
    /\ stored = [segments |-> documentSegments, summaries |-> rows]

NextSummaries ==
    \/ SummariesRequest
    \/ NextPipe
    \/ SummariesRequestFails

SpecSummaries == InitSummaries /\ [][NextSummaries]_vars

----------------------------------------------------------------------------
(* POST /api/process/[sourceId], for requests that name the same source *)

\* the lessons chunkContent returns carry the sequence numbers 1..n
LessonSequences(n) == 1..n

\* updateSourceStatus(sourceId, status, progress), then the request goes on at `next`
UpdateSourceStatus(p, newStatus, next) ==
    /\ status' = newStatus
    /\ proc' = [proc EXCEPT ![p].pc = next]

(* getSource and getMicroLessons: a source that has lessons is answered    *)
(* "already processed".                                                    *)
ProcessRequest(p) ==
    /\ proc[p].pc = "start"
    /\ proc' = [proc EXCEPT ![p].pc = IF lessons # {} THEN "200" ELSE "set_chunking"]
    /\ UNCHANGED <<repoVars, segVars, pipeVars, singleVars, aggVars, utilVars, routeVars, normVars,
                   status, lessons, wasComplete>>

ProcessSetChunking(p) ==
    /\ proc[p].pc = "set_chunking"
    /\ UpdateSourceStatus(p, "chunking", "chunkContent")
    /\ UNCHANGED <<repoVars, segVars, pipeVars, singleVars, aggVars, utilVars, routeVars, normVars,
                   lessons, wasComplete>>

(* chunkContent settles: it throws, or returns n lessons.                  *)
ChunkContentSettles(p, ok, n) ==
    /\ proc[p].pc = "chunkContent"
    /\ proc' = [proc EXCEPT ![p] = IF ok THEN [pc |-> "set_generating", lessonCount |-> n]
                                    ELSE [pc |-> "catch", lessonCount |-> 0]]
    /\ UNCHANGED <<repoVars, segVars, pipeVars, singleVars, aggVars, utilVars, routeVars, normVars,
                   status, lessons, wasComplete>>

ProcessSetGenerating(p) ==
    /\ proc[p].pc = "set_generating"
    /\ UpdateSourceStatus(p, "generating_cards", "createMicroLessons")
    /\ UNCHANGED <<repoVars, segVars, pipeVars, singleVars, aggVars, utilVars, routeVars, normVars,
                   lessons, wasComplete>>

(* createMicroLessons: the inserts run in one transaction (postgres) or    *)
(* without an await (sqlite). UNIQUE(source_id, sequence) rejects the      *)
(* first row when the source already has lessons, and the call throws.     *)
CreateMicroLessons(p) ==
    /\ proc[p].pc = "createMicroLessons"
    /\ IF LessonSequences(proc[p].lessonCount) \cap lessons # {}
       THEN /\ proc' = [proc EXCEPT ![p].pc = "catch"]
            /\ lessons' = lessons
       ELSE /\ proc' = [proc EXCEPT ![p].pc = "createFlashcards"]
            /\ lessons' = lessons \cup LessonSequences(proc[p].lessonCount)
    /\ UNCHANGED <<repoVars, segVars, pipeVars, singleVars, aggVars, utilVars, routeVars, normVars,
                   status, wasComplete>>

(* the loop that stores the flashcards of each lesson                      *)
CreateFlashcards(p) ==
    /\ proc[p].pc = "createFlashcards"
    /\ proc' = [proc EXCEPT ![p].pc = "set_complete"]
    /\ UNCHANGED <<repoVars, segVars, pipeVars, singleVars, aggVars, utilVars, routeVars, normVars,
                   status, lessons, wasComplete>>

ProcessSetComplete(p) ==
    /\ proc[p].pc = "set_complete"
    /\ UpdateSourceStatus(p, "complete", "200")
    /\ wasComplete' = TRUE
    /\ UNCHANGED <<repoVars, segVars, pipeVars, singleVars, aggVars, utilVars, routeVars, normVars,
                   lessons>>

(* catch (aiError): the status is set to 'error' and the request answers 500 *)
ProcessCatch(p) ==
    /\ proc[p].pc = "catch"
    /\ UpdateSourceStatus(p, "error", "500")
    /\ UNCHANGED <<repoVars, segVars, pipeVars, singleVars, aggVars, utilVars, routeVars, normVars,
                   lessons, wasComplete>>

InitProcess ==
    /\ RepoIdle
    /\ SegIdle
    /\ PipeIdle
    /\ SingleIdle
    /\ AggregateIdle
    /\ UtilIdle
    /\ RouteIdle
    /\ NormalizeIdle
    /\ status = "pending"
    /\ lessons = {}
    /\ proc = [p \in Callers |-> [pc |-> "start", lessonCount |-> 0]]
    /\ wasComplete = FALSE

NextProcess ==
    \E p \in Callers :
        \/ ProcessRequest(p)
        \/ ProcessSetChunking(p)
        \/ \E ok \in BOOLEAN : \E n \in 0..MaxLessons : ChunkContentSettles(p, ok, n)
        \/ ProcessSetGenerating(p)
        \/ CreateMicroLessons(p)
        \/ CreateFlashcards(p)
        \/ ProcessSetComplete(p)
        \/ ProcessCatch(p)

SpecProcess == InitProcess /\ [][NextProcess]_vars

----------------------------------------------------------------------------
(* normalizeConcept applied to a concept and then to its own result *)

ConceptAlphabet == {"a", "i", "e", "s", "S", " "}

Concepts == UNION {[1..n -> ConceptAlphabet] : n \in 0..MaxConceptLen}

\* the stored key is normalized again, as a lookup by a stored key does
NormalizeConcept ==
    /\ Len(normalForms) < 2
    /\ normalForms' = Append(normalForms,
                             normalizeConcept(IF normalForms = <<>> THEN rawConcept
                                              ELSE normalForms[Len(normalForms)]))
    /\ UNCHANGED <<repoVars, segVars, pipeVars, singleVars, aggVars, utilVars, routeVars,
                   processVars, rawConcept>>

InitNormalize ==
    /\ rawConcept \in Concepts
    /\ normalForms = <<>>
    /\ RepoIdle
    /\ SegIdle
    /\ PipeIdle
    /\ SingleIdle
    /\ AggregateIdle
    /\ UtilIdle
    /\ RouteIdle
    /\ ProcessIdle

NextNormalize == NormalizeConcept

SpecNormalize == InitNormalize /\ [][NextNormalize]_vars

----------------------------------------------------------------------------
(* segmentDocument on headingless documents, size-split by paragraphs *)

\* without '#' no line is a heading: detectStructure finds the boundary 0 only
PlainAlphabet == {"a", " ", "\n"}

PlainTexts == UNION {[1..n -> PlainAlphabet] : n \in 0..MaxPlainLen}

InitSize ==
    /\ text \in PlainTexts
    /\ budget \in 0..MaxBudget
    /\ respect \in BOOLEAN
    /\ segPc = "input"
    /\ segOut = <<>>
    /\ RepoIdle
    /\ AuxIdle
    /\ PipeIdle

SpecSize == InitSize /\ [][NextSeg]_vars

----------------------------------------------------------------------------
(* The repository under one caller and under concurrent callers *)

InitRepo ==
    /\ usePostgres \in BOOLEAN
    /\ rows = <<>>
    /\ nextId = 0
    /\ wpc = [p \in Callers |-> Idle]
    /\ opsUsed = {}
    /\ lastBatch = NoBatch
    /\ issued = {}

InitSeq == InitRepo /\ writers = {1} /\ SegIdle /\ PipeIdle /\ AuxIdle

InitConc == InitRepo /\ writers = Callers /\ SegIdle /\ PipeIdle /\ AuxIdle

NextRepo ==
    \/ \E p \in writers : \E sc \in Scopes : CreateSummarySqlite(p, sc[1], sc[2])
    \/ \E p \in writers : \E sc \in Scopes : CreateSummaryPgRead(p, sc[1], sc[2])
    \/ \E p \in writers : CreateSummaryPgFlip(p)
    \/ \E p \in writers : CreateSummaryPgInsert(p)
    \/ \E p \in writers : \E batch \in Batches : CreateSummaries(p, batch)
    \/ \E p \in writers : \E i \in 1..MaxInserts : UpdateSummary(p, i)
    \/ \E p \in writers : \E i \in 1..MaxInserts : DeleteSummary(p, i)

SpecSeq == InitSeq /\ [][NextRepo]_vars

SpecConc == InitConc /\ [][NextRepo]_vars

----------------------------------------------------------------------------
(* Properties of the summary repository *)

CurrentRows(rs, sc) ==
    {i \in 1..Len(rs) : InScope(rs[i], sc[1], sc[2]) /\ rs[i].isCurrent}

VersionsDistinct(rs, sc) ==
    \A i, j \in 1..Len(rs) :
        (i # j /\ InScope(rs[i], sc[1], sc[2]) /\ InScope(rs[j], sc[1], sc[2]))
            => rs[i].version # rs[j].version

Count(s, x) == Cardinality({i \in 1..Len(s) : s[i] = x})

\* C1: after any sequence of createSummary, createSummaries, updateSummary and
\* deleteSummary calls (none in flight), every (sourceId, summaryType) scope
\* holds at most one row with isCurrent = true.
C1_AtMostOneCurrent ==
    InFlight = {} => \A sc \in Scopes : Cardinality(CurrentRows(rows, sc)) <= 1

\* C2: when only createSummary calls have run, concurrently and interleaved in
\* any order, then once they have all returned no two rows of a scope share a
\* version and at most one row of a scope is current.
C2_RaceFree ==
    (opsUsed \subseteq {"createSummary"} /\ InFlight = {})
        => \A sc \in Scopes :
              VersionsDistinct(rows, sc) /\ Cardinality(CurrentRows(rows, sc)) <= 1

\* C3: N createSummary calls in sequence on a scope that started empty leave
\* rows with versions 1..N in insertion order, the Nth current and the N-1
\* before it not current.
C3_SequentialVersions ==
    (opsUsed \subseteq {"createSummary"} /\ InFlight = {})
        => \A sc \in Scopes :
              LET r == ScopeRows(rows, sc[1], sc[2])
              IN  \A k \in 1..Len(r) :
                      r[k].version = k /\ (r[k].isCurrent <=> k = Len(r))

C3_Witness ==
    /\ opsUsed = {"createSummary"}
    /\ InFlight = {}
    /\ \E sc \in Scopes : Len(ScopeRows(rows, sc[1], sc[2])) >= 3

\* C4: in every state reached by createSummary calls, however interleaved, a
\* row with isCurrent = true carries the maximum version of the rows stored in
\* its scope.
C4_CurrentIsMax ==
    opsUsed \subseteq {"createSummary"} =>
        \A i, j \in 1..Len(rows) :
            (rows[i].isCurrent /\ InScope(rows[j], rows[i].sourceId, rows[i].summaryType))
                => rows[j].version <= rows[i].version

\* C5: in one createSummaries batch the max-version read and the flip run
\* exactly once per scope of the batch, and every row the batch inserts in a
\* scope has the version max(versions stored before the batch) + 1.
C5_BatchOncePerScope ==
    \A k \in 1..Len(lastBatch.input) :
        LET sc == lastBatch.input[k]
            old == ScopeRows(lastBatch.before, sc[1], sc[2])
            v == lastBatch.inserted[k].version
        IN  /\ Count(lastBatch.reads, sc) = 1
            /\ Count(lastBatch.flips, sc) = 1
            /\ InScope(lastBatch.inserted[k], sc[1], sc[2])
            /\ \A i \in 1..Len(old) : old[i].version < v
            /\ v = 1 \/ \E i \in 1..Len(old) : old[i].version = v - 1

C5_Witness ==
    \E j, k \in 1..Len(lastBatch.input) :
        /\ j # k
        /\ lastBatch.input[j] = lastBatch.input[k]
        /\ \E m \in 1..Len(lastBatch.input) : lastBatch.input[m] # lastBatch.input[k]
        /\ ScopeRows(lastBatch.before, lastBatch.input[k][1], lastBatch.input[k][2]) # <<>>
        /\ lastBatch.inserted[j].version = 2
        /\ lastBatch.inserted[k].version = 2

----------------------------------------------------------------------------
(* Properties of the segmenter *)

\* C10: the segments segmentDocument returns for a non-empty text are
\* ordered and do not overlap: each has startIndex <= endIndex <= len(text),
\* endIndex(i) <= startIndex(i+1), and startIndex increases strictly.
C10_OrderedNonOverlapping ==
    (segPc = "done" /\ text # <<>>) =>
        /\ \A i \in 1..Len(segOut) :
               /\ 0 <= segOut[i].startIndex
               /\ segOut[i].startIndex <= segOut[i].endIndex
               /\ segOut[i].endIndex <= Len(text)
        /\ \A i \in 1..(Len(segOut) - 1) :
               /\ segOut[i].endIndex <= segOut[i + 1].startIndex
               /\ segOut[i].startIndex < segOut[i + 1].startIndex

\* an oversized section, size-split into sub-segments inside section mode
\* after the pending buffer was flushed
C10_Witness ==
    /\ segPc = "done"
    /\ respect
    /\ Len(detectStructure(text).boundaries) > 1
    /\ estimateTokens(text) > budget
    /\ \E i \in 1..(Len(segOut) - 2) :
           /\ Falsy(segOut[i].sectionTitle)
           /\ segOut[i].endIndex = segOut[i + 1].startIndex
           /\ ~Falsy(segOut[i + 1].sectionTitle)
           /\ segOut[i + 1].sectionTitle = segOut[i + 2].sectionTitle
           /\ segOut[i + 1].endIndex < segOut[i + 2].startIndex

\* C11: every segment segmentDocument returns has estimatedTokens within
\* maxTokensPerSegment, unless it is a single paragraph that alone exceeds
\* the budget; a segment packed from several paragraphs stays within it.
C11_WithinBudget ==
    segPc = "done" =>
        \A i \in 1..Len(segOut) :
            \/ segOut[i].estimatedTokens <= budget
            \/ Len(SplitParagraphs(segOut[i].text)) = 1

\* C12: a non-whitespace document whose estimate is within the budget comes
\* back as exactly one segment with segmentIndex 0, spanning [0, len(text)],
\* with the whole-document estimate, whatever boundaries are detected and
\* whatever respectSectionBoundaries is.
C12_SmallDocumentOneSegment ==
    (segPc = "done" /\ Trim(text) # <<>> /\ estimateTokens(text) <= budget) =>
        /\ Len(segOut) = 1
        /\ segOut[1].segmentIndex = 0
        /\ segOut[1].startIndex = 0
        /\ segOut[1].endIndex = Len(text)
        /\ segOut[1].estimatedTokens = estimateTokens(text)

\* a small document with a heading after its first line, in section mode
C12_Witness ==
    /\ segPc = "done"
    /\ respect
    /\ Len(detectStructure(text).boundaries) > 1
    /\ Trim(text) # <<>>
    /\ Trim(text) # text
    /\ estimateTokens(text) <= budget
    /\ Len(segOut) = 1

\* C13: the segmentIndex values of the returned list are 0, 1, ..., n-1 in
\* list order, also when section mode interleaves flushed buffers with the
\* sub-segments of size-split sections.
C13_DenseSegmentIndex ==
    segPc = "done" => \A i \in 1..Len(segOut) : segOut[i].segmentIndex = i - 1

\* a flushed buffer followed by two sub-segments of one oversized section
C13_Witness ==
    /\ segPc = "done"
    /\ respect
    /\ Len(detectStructure(text).boundaries) > 1
    /\ Len(segOut) >= 3
    /\ Falsy(segOut[1].sectionTitle)
    /\ segOut[1].text # Trim(segOut[1].text)
    /\ segOut[2].segmentIndex = 1
    /\ segOut[2].level >= 1
    /\ segOut[3].segmentIndex = 2
    /\ segOut[3].level = segOut[2].level
    /\ segOut[3].sectionTitle = segOut[2].sectionTitle

----------------------------------------------------------------------------
(* Properties of the pipeline *)

Terminated == ppc \in {"done", "failed"}

AllCallsGaveText == \A k \in 1..Len(calls) : calls[k].ok /\ calls[k].content # EmptyText

TypeCount(summaries, summaryType) ==
    Cardinality({k \in 1..Len(summaries) : summaries[k].summaryType = summaryType})

\* C6: a run of generateHierarchicalSummaries ends by returning a result with
\* segments.length + 3 summaries: one executive, one key_points, one detailed
\* and one segment summary per segment. (Stated for the runs in which the
\* title is given, segmentation yields segments with text and every
\* generation call gives a non-empty text.)
C6_ReturnsAllSummaries ==
    (/\ Terminated
     /\ sourceTitle # ""
     /\ segments # <<>>
     /\ \A i \in 1..Len(segments) : Trim(segments[i].text) # <<>>
     /\ AllCallsGaveText)
        => /\ ppc = "done"
           /\ Len(result.summaries) = Len(result.segments) + 3
           /\ TypeCount(result.summaries, "executive") = 1
           /\ TypeCount(result.summaries, "key_points") = 1
           /\ TypeCount(result.summaries, "detailed") = 1
           /\ TypeCount(result.summaries, "segment") = Len(result.segments)

\* the texts the first n settled calls returned
FirstTexts(n) == [i \in 1..n |-> calls[i].content]

\* C7: the segment summaries are requested in increasing segmentIndex order;
\* key_points is requested only after every segment summary has settled and
\* gets all their texts in index order; executive is requested only after
\* key_points has settled and gets its text; detailed gets the segment
\* summary texts and nothing else.
C7_StrictChain ==
    LET n == Len(segments)
    IN  \A k \in 1..Len(invoked) :
            /\ invoked[k].step = "segment" =>
                   /\ invoked[k].index = k - 1
                   /\ Len(calls) >= k - 1
                   /\ \A j \in 1..(k - 1) : calls[j].step = "segment" /\ calls[j].ok
            /\ invoked[k].step = "key_points" =>
                   /\ k = n + 1
                   /\ Len(calls) >= n
                   /\ \A j \in 1..n :
                          calls[j].step = "segment" /\ calls[j].index = j - 1 /\ calls[j].ok
                   /\ invoked[k].input = FirstTexts(n)
            /\ invoked[k].step = "executive" =>
                   /\ k = n + 2
                   /\ Len(calls) >= n + 1
                   /\ calls[n + 1].step = "key_points" /\ calls[n + 1].ok
                   /\ invoked[k].input = <<calls[n + 1].content>>
            /\ invoked[k].step = "detailed" =>
                   /\ k = n + 3
                   /\ invoked[k].input = FirstTexts(n)

C7_Witness ==
    /\ Len(segments) >= 2
    /\ Len(invoked) = Len(segments) + 3
    /\ invoked[Len(invoked)].step = "detailed"
    /\ AllCallsGaveText

\* C8: when the generation call of a step fails, no further generation call
\* is made, the run returns no result, and the error it throws names that step.
C8_FailFast ==
    \A k \in 1..Len(calls) :
        ~calls[k].ok =>
            /\ k = Len(calls)
            /\ inflight = {}
            /\ ppc = "failed"
            /\ result = NoResult
            /\ error = CASE calls[k].step = "segment" -> "Failed to generate segment summary"
                         [] calls[k].step = "key_points" -> "Failed to generate key points summary"
                         [] calls[k].step = "executive" -> "Failed to generate executive summary"
                         [] calls[k].step = "detailed" -> "Failed to generate detailed summary"

C8_Witness ==
    /\ Len(calls) >= 3
    /\ ~calls[Len(calls)].ok
    /\ calls[Len(calls)].step = "executive"

\* C9: when the generation call of a step returns an empty text, the step
\* fails: no further call is made and the run throws an error that names the step.
C9_EmptyOutputFails ==
    \A k \in 1..Len(calls) :
        (calls[k].ok /\ calls[k].content = EmptyText) =>
            /\ k = Len(calls)
            /\ inflight = {}
            /\ ppc = "failed"
            /\ error = StepLabel(calls[k].step)

\* C14: the percent values handed to the progress callback over one run,
\* in call order, never decrease, for every number of segments.
C14_ProgressMonotonic ==
    \A i \in 1..(Len(progress) - 1) : progress[i] <= progress[i + 1]


\* the calls a finished generateSingleSummary run must have made for its kind
SingleCallsAsRequired ==
    LET n == Len(segments)
        SegmentsFirst == \A j \in 1..n : calls[j].step = "segment" /\ calls[j].index = j - 1
    IN  CASE singleType = "segment" ->
                /\ segments = <<>>
                /\ Len(calls) = 1
                /\ calls[1].step = "segment"
                /\ calls[1].input = <<text>>
          [] singleType = "key_points" ->
                /\ Len(calls) = n + 1
                /\ SegmentsFirst
                /\ calls[n + 1].step = "key_points"
          [] singleType = "executive" ->
                /\ Len(calls) = n + 2
                /\ SegmentsFirst
                /\ calls[n + 1].step = "key_points"
                /\ calls[n + 2].step = "executive"
          [] singleType = "detailed" ->
                /\ Len(calls) = n + 1
                /\ SegmentsFirst
                /\ calls[n + 1].step = "detailed"

\* C15: generateSingleSummary returns one summary of the kind asked for:
\* kind segment makes one call on the whole text and does not segment; any
\* other kind segments, summarizes every segment in order and then makes
\* only the calls of its kind. (Stated for the runs in which the title is
\* given, every segment has text and every call gives a non-empty text.)
C15_SingleSummary ==
    (/\ Terminated
     /\ singleType \in SingleKinds
     /\ sourceTitle # ""
     /\ Trim(text) # <<>>
     /\ \A i \in 1..Len(segments) : Trim(segments[i].text) # <<>>
     /\ AllCallsGaveText)
        => /\ ppc = "done"
           /\ single.summaryType = singleType
           /\ single.content = calls[Len(calls)].content
           /\ SingleCallsAsRequired


----------------------------------------------------------------------------
(* Properties of the aggregation *)

\* whether sourceIndex is an integer index into summaries
IntegerIndexInRange(item, summaries) ==
    /\ item.sourceIndex.type = "number"
    /\ item.sourceIndex.halves % 2 = 0
    /\ item.sourceIndex.halves >= 0
    /\ item.sourceIndex.halves \div 2 < Len(summaries)

\* C16: given a parsed insights response, extractUniqueInsights drops exactly
\* the entries whose sourceIndex is not an integer index into summaries, and
\* returns the others in their order, insight and significance unchanged,
\* each with the sourceId of summaries[sourceIndex].
C16_DropsExactlyInvalid ==
    LET promise == promises["extractUniqueInsights"]
        response == responses["extractUniqueInsights"]
        kept == SelectSeq(response.items,
                          LAMBDA item : IntegerIndexInRange(item, summariesToAggregate))
    IN  (/\ promise.state = "fulfilled"
         /\ response.kind = "array"
         /\ \A k \in 1..Len(response.items) : response.items[k].type = "object")
            => promise.value =
                   [k \in 1..Len(kept) |->
                       [sourceId |-> summariesToAggregate[
                                         (kept[k].sourceIndex.halves \div 2) + 1].sourceId,
                        insight |-> kept[k].insight,
                        significance |-> kept[k].significance]]


\* C17: a themes or insights response that cannot be parsed makes its
\* function return [] without raising, and generateAggregatedSummary still
\* returns the aggregated summary, with that list empty.
C17_UnparseableGivesEmpty ==
    LET themes == responses["findCommonThemes"]
        insights == responses["extractUniqueInsights"]
    IN  /\ \A f \in {"findCommonThemes", "extractUniqueInsights"} :
               responses[f].kind \in Unparseable => promises[f] = Fulfilled(<<>>)
        /\ (apc = "200" /\ themes.kind \in Unparseable) =>
               /\ aggregate.commonThemes = <<>>
               /\ aggregate.summary = promises["aggregateSummaries"].value
        /\ (apc = "200" /\ insights.kind \in Unparseable) =>
               /\ aggregate.uniqueInsights = <<>>
               /\ aggregate.summary = promises["aggregateSummaries"].value
        /\ (/\ themes.kind \in Unparseable
            /\ insights.kind \in Unparseable
            /\ responses["aggregateSummaries"].kind # "fail") => apc # "500"

\* both responses unparseable, the aggregation answered with its summary
C17_Witness ==
    /\ apc = "200"
    /\ responses["findCommonThemes"].kind = "bad_json"
    /\ responses["extractUniqueInsights"].kind = "no_array"
    /\ responses["aggregateSummaries"].kind = "text"
    /\ aggregate.summary # EmptyText
    /\ Len(rows) = 3


\* C18: in the aggregate operation a skipped extraction (includeThemes or
\* includeInsights false) makes no generation call and leaves its list empty
\* in the result; with both skipped exactly one generation call is made.
C18_SkippedExtractionNotRun ==
    /\ ~includeThemes =>
           /\ promises["findCommonThemes"].state = "none"
           /\ apc = "200" => aggregate.commonThemes = <<>>
    /\ ~includeInsights =>
           /\ promises["extractUniqueInsights"].state = "none"
           /\ apc = "200" => aggregate.uniqueInsights = <<>>
    /\ (~includeThemes /\ ~includeInsights /\ apc = "200") =>
           Cardinality({f \in AggregationFunctions : promises[f].state # "none"}) = 1


----------------------------------------------------------------------------
(* Properties of the concept deduplication *)

\* the summary ids that reference a normalized key
ReferencedBy(key) ==
    {concepts[i].summaryId : i \in {j \in 1..Len(concepts) :
                                       normalizeConcept(concepts[j].concept) = key}}

\* C19: findDuplicateConcepts returns exactly the normalized keys referenced
\* by at least two distinct summary ids, each once, each with the ids that
\* reference it and no id twice; a concept repeated inside one summary only
\* is not returned.
C19_DuplicatesAcrossSummaries ==
    duplicates.returned =>
        LET entries == duplicates.entries
            keys == {normalizeConcept(concepts[i].concept) : i \in 1..Len(concepts)}
        IN  /\ {entries[k].key : k \in 1..Len(entries)} =
                   {key \in keys : Cardinality(ReferencedBy(key)) >= 2}
            /\ \A k, l \in 1..Len(entries) : entries[k].key = entries[l].key => k = l
            /\ \A k \in 1..Len(entries) :
                   /\ {entries[k].value[j] : j \in 1..Len(entries[k].value)} =
                          ReferencedBy(entries[k].key)
                   /\ Len(entries[k].value) = Cardinality(ReferencedBy(entries[k].key))

\* two spellings of one concept in two summaries are returned; a concept
\* repeated inside one summary is not
C19_Witness ==
    /\ duplicates.returned
    /\ Len(duplicates.entries) = 1
    /\ \E i, j \in 1..Len(concepts) :
           /\ concepts[i].concept # concepts[j].concept
           /\ concepts[i].summaryId # concepts[j].summaryId
           /\ normalizeConcept(concepts[i].concept) = duplicates.entries[1].key
           /\ normalizeConcept(concepts[j].concept) = duplicates.entries[1].key
    /\ \E i, j \in 1..Len(concepts) :
           /\ i # j
           /\ concepts[i] = concepts[j]
           /\ normalizeConcept(concepts[i].concept) # duplicates.entries[1].key


----------------------------------------------------------------------------
(* Properties of the token estimate *)

\* C20: estimateTokens is monotonic in the length of the text: a text that
\* is no longer than another gets an estimate that is no larger.
C20_MonotonicInLength ==
    (estimates # <<>> /\ Len(texts[1]) <= Len(texts[2])) => estimates[1] <= estimates[2]

----------------------------------------------------------------------------
(* Properties of the repository's version history *)

\* the rows a step inserted
NewRows == {i \in 1..Len(rows') : \A j \in 1..Len(rows) : rows[j].id # rows'[i].id}

\* C21: over any sequence of createSummary and deleteSummary calls, each
\* newly inserted row gets a version strictly greater than the version of
\* every row inserted before it in its (sourceId, summaryType) scope, so no
\* version is assigned twice in a scope.
C21_VersionNeverReused ==
    [][opsUsed' \subseteq {"createSummary", "deleteSummary"} =>
          \A i \in NewRows : \A t \in issued :
              (t[1] = rows'[i].sourceId /\ t[2] = rows'[i].summaryType)
                  => t[3] < rows'[i].version]_vars

----------------------------------------------------------------------------
(* Properties of boundary-respecting segmentation *)

\* segmentDocument has run and took the segmentBySections branch
InSectionMode ==
    /\ segPc = "done"
    /\ Trim(text) # <<>>
    /\ estimateTokens(text) > budget
    /\ respect
    /\ Len(detectStructure(text).boundaries) > 1

\* the state of the loop of segmentBySections before its turn for boundary i
RECURSIVE SectionStateAt(_)
SectionStateAt(i) ==
    IF i = 1
    THEN [segments |-> <<>>, segmentIndex |-> 0, pendingText |-> <<>>,
          pendingStart |-> 0, pendingTitle |-> Undefined, pendingLevel |-> 0]
    ELSE SectionStep(SectionStateAt(i - 1), text, detectStructure(text), i - 1, budget)

SectionTextAt(i) ==
    LET boundaries == detectStructure(text).boundaries
    IN  Slice(text, boundaries[i],
              IF i < Len(boundaries) THEN boundaries[i + 1] ELSE Len(text))

Oversized(i) == estimateTokens(SectionTextAt(i)) > budget

\* what segmentBySize makes of section i, numbered after the flushed buffer
SubSegmentsAt(i) ==
    LET before == SectionStateAt(i)
    IN  segmentBySize(SectionTextAt(i), budget,
                      before.segmentIndex + (IF before.pendingText # <<>> THEN 1 ELSE 0),
                      detectStructure(text).boundaries[i])

\* C22: when a section alone exceeds the budget, a non-empty pending buffer
\* is first emitted as its own segment ending at the section's start, then
\* the section is size-split and every sub-segment carries the section's
\* title and the level max(sub-segment level, section level); the pending
\* buffer is empty afterwards.
C22_OversizedSectionSplit ==
    InSectionMode =>
        \A i \in 1..Len(detectStructure(text).boundaries) :
            Oversized(i) =>
                LET structure == detectStructure(text)
                    sectionStart == structure.boundaries[i]
                    before == SectionStateAt(i)
                    after == SectionStateAt(i + 1)
                    base == Len(before.segments)
                    flushed == IF before.pendingText # <<>> THEN 1 ELSE 0
                    sub == SubSegmentsAt(i)
                IN  /\ Len(after.segments) = base + flushed + Len(sub)
                    /\ Len(segOut) >= Len(after.segments)
                    /\ \A k \in 1..base : segOut[k] = before.segments[k]
                    /\ flushed = 1 =>
                          /\ segOut[base + 1].text = before.pendingText
                          /\ segOut[base + 1].startIndex = before.pendingStart
                          /\ segOut[base + 1].endIndex = sectionStart
                          /\ segOut[base + 1].segmentIndex = base
                    /\ \A k \in 1..Len(sub) :
                          LET s == segOut[base + flushed + k]
                          IN  /\ s.sectionTitle = TitleAt(structure, sectionStart)
                              /\ s.level = SetMax({sub[k].level,
                                                   LevelAt(structure, sectionStart)})
                              /\ s.text = sub[k].text
                              /\ s.startIndex = sub[k].startIndex
                              /\ s.endIndex = sub[k].endIndex
                              /\ s.segmentIndex = base + flushed + k - 1
                    /\ after.pendingText = <<>>

\* an oversized section under a heading, split in two, after a pending buffer
C22_Witness ==
    /\ InSectionMode
    /\ \E i \in 1..Len(detectStructure(text).boundaries) :
           /\ Oversized(i)
           /\ SectionStateAt(i).pendingText # <<>>
           /\ LevelAt(detectStructure(text), detectStructure(text).boundaries[i]) >= 1
           /\ Len(SubSegmentsAt(i)) >= 2
           /\ Len(segOut) >= Len(SectionStateAt(i).segments) + 3

----------------------------------------------------------------------------
(* Properties of size-splitting *)

\* segmentDocument has run and took the segmentBySize branch
InSizeMode ==
    /\ segPc = "done"
    /\ Trim(text) # <<>>
    /\ estimateTokens(text) > budget
    /\ ~(respect /\ Len(detectStructure(text).boundaries) > 1)

\* the blank-line-delimited paragraphs of t that are not blank, trimmed
NonBlankParagraphs(t) ==
    LET ps == SplitParagraphs(t)
    IN  SelectSeq([k \in 1..Len(ps) |-> Trim(ps[k])], LAMBDA p : p # <<>>)

\* the paragraphs of the first n segments, in the order of the segments
RECURSIVE ParagraphsOfSegments(_, _)
ParagraphsOfSegments(segs, n) ==
    IF n = 0 THEN <<>>
    ELSE ParagraphsOfSegments(segs, n - 1) \o NonBlankParagraphs(segs[n].text)

\* C23: in size-splitting every blank-line-delimited paragraph of the input
\* appears whole in exactly one emitted segment, in input order, none
\* dropped; a paragraph that alone exceeds the character budget is emitted
\* as a segment of its own.
C23_ParagraphsKeptWhole ==
    InSizeMode =>
        /\ ParagraphsOfSegments(segOut, Len(segOut)) = NonBlankParagraphs(text)
        /\ \A k \in 1..Len(segOut) :
              LET ps == NonBlankParagraphs(segOut[k].text)
              IN  (\E j \in 1..Len(ps) : Len(ps[j]) > tokensToChars(budget))
                      => /\ Len(ps) = 1
                         /\ segOut[k].text = ps[1]

\* a paragraph over the character budget next to another paragraph
C23_Witness ==
    /\ InSizeMode
    /\ budget >= 1
    /\ Len(detectStructure(text).boundaries) = 1
    /\ Len(NonBlankParagraphs(text)) >= 2
    /\ Len(segOut) >= 2
    /\ \E k \in 1..Len(segOut) : Len(segOut[k].text) > tokensToChars(budget)

----------------------------------------------------------------------------
(* Properties of the sequencing of generation calls *)

\* C24: at most one call to the generation capability is in flight at any
\* time, and a run over n >= 1 segments whose generation calls all return
\* text is a successful run that made exactly n + 3 generation calls.
C24_SequencedCalls ==
    /\ Cardinality(inflight) <= 1
    /\ (Terminated /\ sourceTitle # "" /\ segments # <<>> /\ AllCallsGaveText)
           => (ppc = "done" /\ Len(calls) = Len(segments) + 3)

----------------------------------------------------------------------------
(* Properties of the segment offsets *)

\* C25: for every segment segmentDocument returns, the slice of the document
\* text from startIndex to endIndex equals the segment's text, up to the
\* leading and trailing whitespace the segmenter trims, whatever paragraph
\* separators the text contains (runs of three or more newlines included).
C25_OffsetsSliceText ==
    segPc = "done" =>
        \A i \in 1..Len(segOut) :
            Trim(Slice(text, segOut[i].startIndex, segOut[i].endIndex))
                = Trim(segOut[i].text)

----------------------------------------------------------------------------
(* Properties of the segment texts *)

\* C26: every segment segmentDocument emits has a text that is neither empty
\* nor whitespace-only (the precondition of generateSegmentSummary), also for
\* over-budget documents that begin with blank lines.
C26_SegmentsHaveText ==
    segPc = "done" => \A i \in 1..Len(segOut) : Trim(segOut[i].text) # <<>>

----------------------------------------------------------------------------
(* Properties of the termination of the pipeline *)

\* C27: if every generation call succeeds with non-empty text and
\* segmentation yields at least one segment, generateHierarchicalSummaries
\* (called with a source title) eventually returns a result instead of
\* raising an error: every run eventually returns, or has a call that failed
\* or gave no text, or found no segment.
C27_EventuallyReturns ==
    <>(\/ ppc = "done"
       \/ ~AllCallsGaveText
       \/ (ppc # "start" /\ segments = <<>>)
       \/ sourceTitle = "")

----------------------------------------------------------------------------
(* Properties of POST /api/summaries *)

\* C28: if a POST /api/summaries request fails at any point, the source's
\* stored document segments and summaries are the same as before the
\* request, also when forceRegenerate = true.
C28_FailureLeavesStoreUnchanged ==
    rpc = "500" =>
        /\ SegmentsOf(documentSegments, RequestSource)
               = SegmentsOf(stored.segments, RequestSource)
        /\ rows = stored.summaries

----------------------------------------------------------------------------
(* Properties of POST /api/process *)

ProcessDone == \A p \in Callers : proc[p].pc \in {"200", "500"}

\* C29: once a POST /api/process request has set the source's status to
\* 'complete', no step of another request for the same source sets it to
\* 'error' or back to 'chunking'; and once the requests have answered, a
\* source that has stored lessons is not in status 'error'.
C29_CompleteIsFinal ==
    /\ wasComplete => status \notin {"error", "chunking"}
    /\ (ProcessDone /\ lessons # {}) => status # "error"

----------------------------------------------------------------------------
(* Properties of normalizeConcept *)

\* C30: normalizeConcept is idempotent: normalizing a normalized concept
\* gives the same string, normalizeConcept(normalizeConcept(c)) =
\* normalizeConcept(c) for every concept c.
C30_NormalizeIdempotent ==
    Len(normalForms) = 2 => normalForms[2] = normalForms[1]

====
